---- MODULE Spec2Model ----
(***************************************************************************)
(* Budget optimisation engine: the Module 5 allocation pipeline            *)
(* (src/modules/module5.py), the Module 6 forecast projector               *)
(* (src/modules/module6.py) and the part of the wizard state they use      *)
(* (src/core/wizard_state.py).                                             *)
(*                                                                         *)
(* Number representation.  Python floats are modelled in fixed point:      *)
(*   - money (budgets, floors, allocations) in whole currency units;       *)
(*   - scenario multipliers in hundredths, MultUnit = 1.0;                 *)
(*   - KPI ratios / productivities in hundredths (200 = 2.00);             *)
(*   - normalised weights in twelfths, WeightUnit = 1.0.                   *)
(* The inputs drawn in Init are chosen so that every division and product  *)
(* the code performs is exact in this representation.  Tolerances of 1e-6  *)
(* and 1e-9 are below the resolution of one unit and read as 0.            *)
(* A Python dict is a function; an insertion-ordered dict whose order the  *)
(* code iterates is a sequence of [name, mult] entries with unique names.  *)
(***************************************************************************)
EXTENDS Integers, Sequences, FiniteSets, TLC

MultUnit == 100
WeightUnit == 12

\* ---------------------------------------------------------------- bounds
MaxBudget == 3

\* ------------------------------------------------------- generic helpers
Get(d, k, default) == IF k \in DOMAIN d THEN d[k] ELSE default

Range(s) == {s[i] : i \in DOMAIN s}

Max0(x) == IF x > 0 THEN x ELSE 0

RECURSIVE SumSet(_, _)
\* sum of f[k] over the keys k of S
SumSet(S, f) ==
    IF S = {} THEN 0
    ELSE LET k == CHOOSE e \in S : TRUE IN f[k] + SumSet(S \ {k}, f)

SumDict(d) == SumSet(DOMAIN d, d)

\* raw caller-supplied values: a number, or something float() rejects
\* (a non-numeric string, None) or that is NaN / +-Inf
Num(n) == [num |-> TRUE, v |-> n]
NotANumber == [num |-> FALSE, v |-> 0]

SafeFloat(value, default) == IF value.num THEN value.v ELSE default

NonnegDict(d) == [k \in DOMAIN d |-> Max0(SafeFloat(d[k], 0))]

\* ordered dict helpers
Names(od) == {od[i].name : i \in DOMAIN od}
Lookup(od, n) == (CHOOSE i \in DOMAIN od : od[i].name = n)
MultOf(od, n) == od[Lookup(od, n)].mult

\* ------------------------------------------------------------ KPI_CONFIG
KPI_CONFIG ==
    << [platform |-> "fb", goal |-> "aw", var |-> "FB_AW_REACH"],
       [platform |-> "fb", goal |-> "aw", var |-> "FB_AW_IMPRESSION"],
       [platform |-> "fb", goal |-> "en", var |-> "FB_EN_ENGAGEMENT"],
       [platform |-> "fb", goal |-> "wt", var |-> "FB_WT_CLICKS"],
       [platform |-> "fb", goal |-> "lg", var |-> "FB_LG_LEADS"],
       [platform |-> "ig", goal |-> "aw", var |-> "IG_AW_REACH"],
       [platform |-> "ig", goal |-> "en", var |-> "IG_EN_ENGRATERATE"],
       [platform |-> "ig", goal |-> "wt", var |-> "IG_WT_CLICKS"],
       [platform |-> "ig", goal |-> "lg", var |-> "IG_LG_LEADS"],
       [platform |-> "li", goal |-> "aw", var |-> "LI_AW_REACH"],
       [platform |-> "li", goal |-> "en", var |-> "LI_EN_ENGRATERATE"],
       [platform |-> "li", goal |-> "lg", var |-> "LI_LG_LEADS"],
       [platform |-> "yt", goal |-> "aw", var |-> "YT_AW_VIEWS"],
       [platform |-> "yt", goal |-> "en", var |-> "YT_EN_ENGRATERATE"],
       [platform |-> "yt", goal |-> "wt", var |-> "YT_WT_CLICKS"],
       [platform |-> "yt", goal |-> "lg", var |-> "YT_LG_LEADS"] >>

\* ----------------------------------------------------------------- errors
NoError == [cls |-> "", msg |-> ""]
FlowStateError(m) == [cls |-> "FlowStateError", msg |-> m]
Module5ValidationError(m) == [cls |-> "Module5ValidationError", msg |-> m]

VARIABLES
    \* WizardState fields
    current_step, finalised, valid_goals, total_budget, system_goal_weights,
    platform_weights, active_platforms, kpi_ratios,
    min_spend_per_platform, min_budget_per_goal, scenario_multipliers,
    module5_result, module5_scenario_bundle,
    \* WizardState fields of Modules 2, 3, 4 and 6
    goals_by_platform, priority_rank, platform_priorities,
    module3_data, platform_budgets, platform_kpis,
    module4_result, module6_result, module6_scenario_result,
    \* the running Module 5 call
    call, pc, lp_input, todo, results, raised, returned, solved,
    \* the forecast projector's call
    fc_in, fc_out,
    \* the insight engine's call
    m7_in, m7_out

wizard == << current_step, finalised, valid_goals, total_budget, system_goal_weights,
             platform_weights, active_platforms, kpi_ratios,
             min_spend_per_platform, min_budget_per_goal, scenario_multipliers,
             module5_result, module5_scenario_bundle >>
stages == << goals_by_platform, priority_rank, platform_priorities,
             module3_data, platform_budgets, platform_kpis,
             module4_result, module6_result, module6_scenario_result >>
m5call == << call, pc, lp_input, todo, results, raised, returned, solved >>
forecast == << fc_in, fc_out >>
insight == << m7_in, m7_out >>
vars == << wizard, stages, m5call, forecast, insight >>

\* ===================================================== Module 5: builders

\* w / total for a normalised weight
Normalise(w, total) == (w * WeightUnit) \div total

\* _build_system_goal_weights (valid_goals is non-empty where it is called)
BuildSystemGoalWeights(sgw, vg) ==
    LET keys == {g \in DOMAIN sgw : g \in Range(vg)}
        raw == [g \in keys |-> Max0(sgw[g])]
        total == SumDict(raw)
    IN  IF sgw # <<>> /\ total > 0
        THEN [g \in keys |-> Normalise(raw[g], total)]
        ELSE [g \in Range(vg) |-> WeightUnit \div Len(vg)]

\* _build_platform_goal_weights_from_state (platform_weights is non-empty)
BuildPlatformGoalWeights(pw, vg) ==
    [p \in DOMAIN pw |->
        LET raw == [g \in Range(vg) |-> Max0(Get(pw[p], g, 0))]
            total == SumDict(raw)
        IN  IF total > 0 THEN [g \in Range(vg) |-> Normalise(raw[g], total)]
            ELSE raw]

\* the positive ratios recorded for the KPI variables KPI_CONFIG lists for (p, g)
Productivities(kr, p, g) ==
    LET ratios_for_p == Get(kr, p, <<>>)
        rows == SelectSeq(KPI_CONFIG,
                    LAMBDA row : /\ row.platform = p
                                 /\ row.goal = g
                                 /\ row.var \in DOMAIN ratios_for_p
                                 /\ ratios_for_p[row.var] > 0)
    IN  [i \in DOMAIN rows |-> ratios_for_p[rows[i].var]]

\* _build_r_pg_from_state (kpi_ratios and active_platforms are non-empty)
BuildRpg(kr, ap, vg) ==
    [p \in Range(ap) |->
        [g \in Range(vg) |->
            LET productivities == Productivities(kr, p, g)
            IN  IF productivities # <<>>
                THEN SumDict(productivities) \div Len(productivities)
                ELSE 0]]

DefaultScenarioMultipliers ==
    << [name |-> "conservative", mult |-> Num(85)],
       [name |-> "base", mult |-> Num(MultUnit)],
       [name |-> "optimistic", mult |-> Num(115)] >>

\* the scenario-multiplier map of _extract_policy_from_state (lines 181-193)
BaseEntry(sm) ==
    IF "base" \notin Names(sm) THEN << [name |-> "base", mult |-> MultUnit] >> ELSE <<>>

ExtractMultipliers(raw_sm) ==
    LET given == IF raw_sm = <<>> THEN DefaultScenarioMultipliers ELSE raw_sm
        kept == SelectSeq(given,
                    LAMBDA e : SafeFloat(e.mult, MultUnit) > 0)
        sm == [i \in DOMAIN kept |->
                  [name |-> kept[i].name, mult |-> SafeFloat(kept[i].mult, MultUnit)]]
    IN  sm \o BaseEntry(sm)

\* the floors of _extract_policy_from_state (lines 179-180, 195-203)
ExtractFloors(raw_floors, keys) ==
    LET nonneg == NonnegDict(raw_floors)
    IN  [k \in keys |-> Max0(Get(nonneg, k, 0))]

InfeasiblePlatforms == Module5ValidationError("Infeasible policy: sum of minimum platform spends exceeds total budget.")
InfeasibleGoals == Module5ValidationError("Infeasible policy: sum of minimum goal budgets exceeds total budget.")

\* variant: only the platform floors are checked against the budget
PolicyErrorNoGoals(min_p, min_g, budget) ==
    IF SumDict(min_p) > budget THEN InfeasiblePlatforms ELSE NoError

\* the feasibility check of _extract_policy_from_state (lines 205-215)
PolicyError(min_p, min_g, budget) ==
    IF SumDict(min_p) > budget THEN InfeasiblePlatforms
    ELSE IF SumDict(min_g) > budget THEN InfeasibleGoals
    ELSE NoError

EmptyInput ==
    [valid_goals |-> <<>>, total_budget |-> 0, system_goal_weights |-> <<>>,
     platform_goal_weights |-> <<>>, r_pg |-> <<>>, min_spend_per_platform |-> <<>>,
     min_budget_per_goal |-> <<>>, scenario_multipliers |-> <<>>]

\* build_module5_input_from_state: [err, input]
BuildModule5Input ==
    LET Fail(e) == [err |-> e, input |-> EmptyInput] IN
    IF ~finalised[1] THEN Fail(FlowStateError("Module 5 cannot run, Module 1 is not finalised."))
    ELSE IF ~finalised[2] THEN Fail(FlowStateError("Module 5 cannot run, Module 2 is not finalised."))
    ELSE IF ~finalised[3] THEN Fail(FlowStateError("Module 5 cannot run, Module 3 is not finalised."))
    ELSE IF ~finalised[4] THEN Fail(FlowStateError("Module 5 cannot run, Module 4 is not finalised."))
    ELSE IF valid_goals = <<>>
        THEN Fail(Module5ValidationError("Module 5 cannot run, valid_goals list is empty."))
    ELSE IF total_budget <= 1
        THEN Fail(Module5ValidationError("Module 5 cannot run, total_budget is missing or invalid."))
    ELSE IF platform_weights = <<>>
        THEN Fail(Module5ValidationError("Module 5 cannot run, platform_weights is empty."))
    ELSE IF kpi_ratios = <<>>
        THEN Fail(Module5ValidationError("Module 5 cannot run, state.kpi_ratios is empty. Check Module 3."))
    ELSE IF active_platforms = <<>>
        THEN Fail(Module5ValidationError("Module 5 cannot run, state.active_platforms is empty. Check Module 2."))
    ELSE
        LET r_pg == BuildRpg(kpi_ratios, active_platforms, valid_goals)
            min_p == ExtractFloors(min_spend_per_platform, DOMAIN r_pg)
            min_g == ExtractFloors(min_budget_per_goal, Range(valid_goals))
            e == PolicyError(min_p, min_g, total_budget)
        IN  IF e # NoError THEN Fail(e)
            ELSE [err |-> NoError,
                  input |->
                    [valid_goals |-> valid_goals,
                     total_budget |-> total_budget,
                     system_goal_weights |-> BuildSystemGoalWeights(system_goal_weights, valid_goals),
                     platform_goal_weights |-> BuildPlatformGoalWeights(platform_weights, valid_goals),
                     r_pg |-> r_pg,
                     min_spend_per_platform |-> min_p,
                     min_budget_per_goal |-> min_g,
                     scenario_multipliers |-> ExtractMultipliers(scenario_multipliers)]]

\* ================================================ Module 5: _solve_single_lp

\* the argument checks at the head of _solve_single_lp
LpArgsError(a) ==
    IF a.valid_goals = <<>> THEN Module5ValidationError("Module 5 LP, valid_goals is empty.")
    ELSE IF a.total_budget <= 1
        THEN Module5ValidationError("Module 5 LP, total_budget must be greater than 1.")
    ELSE IF a.system_goal_weights = <<>>
        THEN Module5ValidationError("Module 5 LP, system_goal_weights is empty.")
    ELSE IF a.platform_goal_weights = <<>>
        THEN Module5ValidationError("Module 5 LP, platform_goal_weights is empty.")
    ELSE IF a.r_pg = <<>> THEN Module5ValidationError("Module 5 LP, r_pg is empty.")
    ELSE NoError

CombinedWeightPg(a) ==
    [p \in DOMAIN a.r_pg |->
        [g \in Range(a.valid_goals) |->
            Get(a.system_goal_weights, g, 0)
                * Get(Get(a.platform_goal_weights, p, <<>>), g, 0)]]

\* the LP variables x_pg, one per (platform, goal)
LpPairs(a) == (DOMAIN a.r_pg) \X Range(a.valid_goals)

\* variant: the platform's goal weight is left out of the objective
CoefficientNoPlatformWeight(a, p, g) ==
    Get(a.system_goal_weights, g, 0) * Get(Get(a.r_pg, p, <<>>), g, 0)

\* the objective's coefficient of x_pg (lines 303-307)
Coefficient(a, p, g) ==
    Get(a.system_goal_weights, g, 0)
        * Get(Get(a.platform_goal_weights, p, <<>>), g, 0)
        * Get(Get(a.r_pg, p, <<>>), g, 0)

CoefficientTable(a) == [pr \in LpPairs(a) |-> Coefficient(a, pr[1], pr[2])]

WeightedSum(coef, x) == SumSet(DOMAIN coef, [pr \in DOMAIN coef |-> coef[pr] * x[pr]])

ObjectiveOf(a, x) == WeightedSum(CoefficientTable(a), x)

PlatformTotal(a, x, p) == SumSet({p} \X Range(a.valid_goals), x)
GoalTotal(a, x, g) == SumSet((DOMAIN a.r_pg) \X {g}, x)

\* variant: the budget constraint is left out of the model
FeasibleNoCap(a, x) ==
    /\ \A p \in DOMAIN a.r_pg :
          Get(a.min_spend_per_platform, p, 0) > 0
              => PlatformTotal(a, x, p) >= Get(a.min_spend_per_platform, p, 0)
    /\ \A g \in Range(a.valid_goals) :
          Get(a.min_budget_per_goal, g, 0) > 0
              => GoalTotal(a, x, g) >= Get(a.min_budget_per_goal, g, 0)

\* variant: the goal floors are left out of the model
FeasibleNoGoalFloors(a, x) ==
    /\ SumDict(x) <= a.total_budget
    /\ \A p \in DOMAIN a.r_pg :
          Get(a.min_spend_per_platform, p, 0) > 0
              => PlatformTotal(a, x, p) >= Get(a.min_spend_per_platform, p, 0)

\* the constraints added to the model (lines 309-321)
Feasible(a, x) ==
    /\ SumDict(x) <= a.total_budget
    /\ \A p \in DOMAIN a.r_pg :
          Get(a.min_spend_per_platform, p, 0) > 0
              => PlatformTotal(a, x, p) >= Get(a.min_spend_per_platform, p, 0)
    /\ \A g \in Range(a.valid_goals) :
          Get(a.min_budget_per_goal, g, 0) > 0
              => GoalTotal(a, x, g) >= Get(a.min_budget_per_goal, g, 0)

\* The external solver, by its contract.  With integer floors and budget the
\* constraint matrix is a network matrix, so every vertex of the feasible
\* region is integral: the candidate solutions are the integer points.  The
\* solver reports Infeasible when there is none, otherwise any optimal point,
\* or gives up without a solution (a status other than Optimal).
Candidates(a) == [LpPairs(a) -> 0..a.total_budget]

ZeroSolution(a) == [pr \in LpPairs(a) |-> 0]

\* the optimal points of the feasible set F under the objective values obj
Optimal(F, obj) ==
    LET best == CHOOSE v \in {obj[x] : x \in F} : \A x \in F : obj[x] <= v
    IN  {x \in F : obj[x] = best}

SolverOutcomes(a) ==
    UNION { IF F = {}
            THEN {[status |-> "Infeasible", x |-> ZeroSolution(a)]}
            ELSE {[status |-> "Optimal", x |-> x] :
                     x \in UNION {Optimal(F, obj) :
                                     obj \in {[y \in F |-> WeightedSum(coef, y)]}}}
                 \cup {[status |-> "Not Solved", x |-> ZeroSolution(a)]} :
            F \in {{x \in Candidates(a) : Feasible(a, x)}},
            coef \in {CoefficientTable(a)} }

\* variant: a solve that stopped without a solution is accepted as well
StatusAcceptedLoose(status) == status \in {"Optimal", "Feasible", "Not Solved"}

StatusAccepted(status) == status \in {"Optimal", "Feasible"}

SolveFailed(status) == Module5ValidationError("LP solve failed with status: " \o status)

\* varValue as the solver reports it: the value, and the sign of the numerical
\* noise on it (eps = -1: an infinitesimally negative perturbation)
VarValue(x, pr, noisy) == [v |-> x[pr], eps |-> IF noisy /\ x[pr] = 0 THEN -1 ELSE 0]

\* variant: no clamp, the solver's value is stored with its noise
ClampNegativeKeep(val) == val.v + val.eps

\* lines 339-341: negative values are clamped to 0
ClampNegative(val) == IF val.v < 0 \/ (val.v = 0 /\ val.eps < 0) THEN 0 ELSE val.v

\* the Module5LPResult built after a successful solve (lines 329-363)
LpResult(a, x, noisy) ==
    LET platforms == DOMAIN a.r_pg
        goals == Range(a.valid_goals)
        bpg == [p \in platforms |->
                   [g \in goals |-> ClampNegative(VarValue(x, <<p, g>>, noisy))]]
    IN  [budget_per_platform_goal |-> bpg,
         budget_per_platform |-> [p \in platforms |-> SumDict(bpg[p])],
         total_budget_used |-> SumSet(platforms, [p \in platforms |-> SumDict(bpg[p])]),
         objective_value |-> ObjectiveOf(a, x),
         r_pg |-> a.r_pg,
         combined_weight_pg |-> CombinedWeightPg(a),
         estimated_kpi_per_platform_goal |->
             [p \in platforms |->
                 [g \in goals |-> Get(Get(a.r_pg, p, <<>>), g, 0) * bpg[p][g]]]]

\* ======================================== Module 5: run_module5_lp_scenarios

\* variant: the multiplier is applied to the awareness ratios only
AdjustedRpgAwareness(r_pg, m) ==
    [p \in DOMAIN r_pg |->
        [g \in DOMAIN r_pg[p] |->
            IF g = "aw" THEN Max0((r_pg[p][g] * m) \div MultUnit) ELSE Max0(r_pg[p][g])]]

\* lines 389-394: the productivity table of one scenario
AdjustedRpg(r_pg, m) ==
    [p \in DOMAIN r_pg |->
        [g \in DOMAIN r_pg[p] |-> Max0((r_pg[p][g] * m) \div MultUnit)]]

\* variant: the floors are scaled with the scenario as well
ScenarioArgsScaledFloors(inp, m) ==
    [valid_goals |-> inp.valid_goals,
     total_budget |-> inp.total_budget,
     system_goal_weights |-> inp.system_goal_weights,
     platform_goal_weights |-> inp.platform_goal_weights,
     r_pg |-> AdjustedRpg(inp.r_pg, m),
     min_spend_per_platform |->
         [p \in DOMAIN inp.min_spend_per_platform |->
             (inp.min_spend_per_platform[p] * m) \div MultUnit],
     min_budget_per_goal |->
         [g \in DOMAIN inp.min_budget_per_goal |->
             (inp.min_budget_per_goal[g] * m) \div MultUnit]]

\* lines 396-404: the arguments of one scenario's solve
ScenarioArgs(inp, m) ==
    [valid_goals |-> inp.valid_goals,
     total_budget |-> inp.total_budget,
     system_goal_weights |-> inp.system_goal_weights,
     platform_goal_weights |-> inp.platform_goal_weights,
     r_pg |-> AdjustedRpg(inp.r_pg, m),
     min_spend_per_platform |-> inp.min_spend_per_platform,
     min_budget_per_goal |-> inp.min_budget_per_goal]

\* sorted() on the scenario names used here
ScenarioOrder == << "bad", "base", "conservative", "low", "optimistic", "zero" >>

\* Module5ScenarioBundle.get_base (results is non-empty where it is called)
GetBase(bundle) ==
    LET rs == bundle.results_by_scenario
        first == CHOOSE i \in DOMAIN ScenarioOrder :
                    /\ ScenarioOrder[i] \in DOMAIN rs
                    /\ \A j \in 1..(i - 1) : ScenarioOrder[j] \notin DOMAIN rs
    IN  IF "base" \in DOMAIN rs THEN rs["base"] ELSE rs[ScenarioOrder[first]]

NoBundle == [results_by_scenario |-> <<>>, scenario_multipliers |-> <<>>]
NoResult == <<>>

\* entry of run_module5_lp_scenarios with input inp, called by c
EnterScenarios(c, inp) ==
    /\ call' = c
    /\ lp_input' = inp
    /\ results' = <<>>
    /\ solved' = <<>>
    /\ returned' = NoBundle
    /\ IF inp.scenario_multipliers = <<>>
       THEN /\ raised' = Module5ValidationError("scenario_multipliers is empty.")
            /\ pc' = "raised"
            /\ todo' = <<>>
       ELSE /\ raised' = NoError
            /\ pc' = "loop"
            /\ todo' = inp.scenario_multipliers

\* a call that raises before the scenario loop is entered
RaiseEarly(c, e) ==
    /\ call' = c
    /\ raised' = e
    /\ pc' = "raised"
    /\ lp_input' = EmptyInput
    /\ todo' = <<>>
    /\ results' = <<>>
    /\ solved' = <<>>
    /\ returned' = NoBundle

Idle == pc = "idle"

\* run_module5(state), up to the entry of the scenario loop
RunModule5 ==
    /\ Idle
    /\ IF finalised[5]
       THEN RaiseEarly("run_module5",
                FlowStateError("Module 5 has already been finalised. Reset the wizard to change it."))
       ELSE LET b == BuildModule5Input
            IN  IF b.err # NoError THEN RaiseEarly("run_module5", b.err)
                ELSE EnterScenarios("run_module5", b.input)
    /\ UNCHANGED << wizard, stages, forecast, insight >>

\* A Module5LPInput a caller fills from the same state fields without the
\* policy extractor: floors and multipliers as declared.
CallerInput ==
    [valid_goals |-> valid_goals,
     total_budget |-> total_budget,
     system_goal_weights |-> BuildSystemGoalWeights(system_goal_weights, valid_goals),
     platform_goal_weights |-> BuildPlatformGoalWeights(platform_weights, valid_goals),
     r_pg |-> BuildRpg(kpi_ratios, active_platforms, valid_goals),
     min_spend_per_platform |->
         [k \in DOMAIN min_spend_per_platform |-> SafeFloat(min_spend_per_platform[k], 0)],
     min_budget_per_goal |->
         [k \in DOMAIN min_budget_per_goal |-> SafeFloat(min_budget_per_goal[k], 0)],
     scenario_multipliers |->
         [i \in DOMAIN scenario_multipliers |->
             [name |-> scenario_multipliers[i].name,
              mult |-> SafeFloat(scenario_multipliers[i].mult, MultUnit)]]]

\* run_module5_lp_scenarios(input_data) called directly
CallLpScenarios ==
    /\ Idle
    /\ EnterScenarios("run_module5_lp_scenarios", CallerInput)
    /\ UNCHANGED << wizard, stages, forecast, insight >>

\* variant: a failed scenario is skipped and the loop goes on
AfterSolveSkip(scenario_name, a, out, noisy) ==
    /\ results' = IF out.status \in {"Optimal", "Feasible"}
                  THEN (scenario_name :> LpResult(a, out.x, noisy)) @@ results
                  ELSE results
    /\ todo' = Tail(todo)
    /\ UNCHANGED << pc, raised >>

\* lines 323-327 and 396: the solve returned `out`; the result is stored under
\* the scenario's name, or the failure is raised out of the loop
AfterSolve(scenario_name, a, out, noisy) ==
    IF StatusAccepted(out.status)
    THEN /\ results' = (scenario_name :> LpResult(a, out.x, noisy)) @@ results
         /\ todo' = Tail(todo)
         /\ UNCHANGED << pc, raised >>
    ELSE /\ raised' = SolveFailed(out.status)
         /\ pc' = "raised"
         /\ UNCHANGED << todo, results >>

\* one iteration of the scenario loop (lines 384-404)
ScenarioStep ==
    /\ pc = "loop"
    /\ todo # <<>>
    /\ LET scenario_name == Head(todo).name
           m == Head(todo).mult
           a == ScenarioArgs(lp_input, m)
       IN  IF m <= 0
           THEN /\ todo' = Tail(todo)
                /\ UNCHANGED << pc, results, raised, solved >>
           ELSE IF LpArgsError(a) # NoError
           THEN /\ raised' = LpArgsError(a)
                /\ pc' = "raised"
                /\ UNCHANGED << todo, results, solved >>
           ELSE \E out \in SolverOutcomes(a), noisy \in BOOLEAN :
                /\ solved' = Append(solved, [scenario |-> scenario_name, args |-> a,
                                             status |-> out.status])
                /\ AfterSolve(scenario_name, a, out, noisy)
    /\ UNCHANGED << call, lp_input, returned, wizard, stages, forecast, insight >>

\* the end of run_module5_lp_scenarios (lines 406-412)
ReturnBundle ==
    /\ pc = "loop"
    /\ todo = <<>>
    /\ IF results = <<>>
       THEN /\ raised' = Module5ValidationError("No scenario results were produced.")
            /\ pc' = "raised"
            /\ UNCHANGED returned
       ELSE /\ returned' = [results_by_scenario |-> results,
                            scenario_multipliers |-> lp_input.scenario_multipliers]
            /\ pc' = IF call = "run_module5" THEN "complete" ELSE "returned"
            /\ UNCHANGED raised
    /\ UNCHANGED << call, lp_input, todo, results, solved, wizard, stages, forecast, insight >>

\* the rest of run_module5 (lines 423-437): get_base, then
\* WizardState.complete_module5_and_advance, then the bundle is attached
CompleteModule5 ==
    /\ pc = "complete"
    /\ IF current_step # 5
       THEN /\ raised' = FlowStateError("Invalid flow: expected=5.")
            /\ pc' = "raised"
            /\ UNCHANGED wizard
       ELSE IF ~finalised[4]
       THEN /\ raised' = FlowStateError("Module 4 must be finalised before Module 5.")
            /\ pc' = "raised"
            /\ UNCHANGED wizard
       ELSE /\ module5_result' = GetBase(returned)
            /\ finalised' = [finalised EXCEPT ![5] = TRUE]
            /\ current_step' = 6
            /\ module5_scenario_bundle' = returned
            /\ pc' = "done"
            /\ UNCHANGED << raised, valid_goals, total_budget, system_goal_weights,
                            platform_weights, active_platforms, kpi_ratios,
                            min_spend_per_platform, min_budget_per_goal,
                            scenario_multipliers >>
    /\ UNCHANGED << call, lp_input, todo, results, returned, solved, stages, forecast, insight >>

\* ============================================ Module 6: forecast projector

\* str(value).strip().lower() on the platform and goal keys used here
NormPlatform(k) == CASE k = "FB" -> "fb" [] k = "IG" -> "ig" [] k = " ig" -> "ig" [] OTHER -> k
NormGoal(k) == CASE k = "AW" -> "aw" [] k = "En" -> "en" [] OTHER -> k
\* str(value).strip() on the KPI names used here
NormKpi(k) == CASE k = "reach " -> "reach" [] k = " clicks" -> "clicks" [] OTHER -> k

\* _normalise_allocation_pg: keys normalised, empty goal maps dropped
\* (no two keys of one dict used here normalise to the same key)
NormaliseAllocationPg(allocation_pg) ==
    LET kept == {p \in DOMAIN allocation_pg : allocation_pg[p] # <<>>}
        Src(S, key, N(_)) == CHOOSE k \in S : N(k) = key
    IN  [pk \in {NormPlatform(p) : p \in kept} |->
            LET gmap == allocation_pg[Src(kept, pk, NormPlatform)]
            IN  [gk \in {NormGoal(g) : g \in DOMAIN gmap} |->
                    gmap[Src(DOMAIN gmap, gk, NormGoal)]]]

\* _normalise_ratios_pgv: platform -> goal -> KPI name -> ratio, keys
\* normalised, empty maps dropped
NormaliseRatiosPgv(kpi_ratios_in) ==
    LET kept == {p \in DOMAIN kpi_ratios_in : kpi_ratios_in[p] # <<>>}
        Src(S, key, N(_)) == CHOOSE k \in S : N(k) = key
    IN  [pk \in {NormPlatform(p) : p \in kept} |->
            LET gmap == kpi_ratios_in[Src(kept, pk, NormPlatform)]
                gkept == {g \in DOMAIN gmap : gmap[g] # <<>>}
            IN  [gk \in {NormGoal(g) : g \in gkept} |->
                    LET vmap == gmap[Src(gkept, gk, NormGoal)]
                    IN  [kk \in {NormKpi(k) : k \in DOMAIN vmap} |->
                            vmap[Src(DOMAIN vmap, kk, NormKpi)]]]]

\* the (platform, goal) pairs of an allocation
PairsOf(allocation_pg) ==
    {pr \in (DOMAIN allocation_pg)
                \X (UNION {DOMAIN allocation_pg[p] : p \in DOMAIN allocation_pg}) :
        pr[2] \in DOMAIN allocation_pg[pr[1]]}

RatiosForGoal(ratios_pgv, p, g) == Get(Get(ratios_pgv, p, <<>>), g, <<>>)

\* a ratio item yields a row: lines 297-305
ItemUsed(ratio_val, budget_val) == ratio_val > 0 /\ ratio_val * budget_val > 0

\* lines 310-319
ForecastRow(p, g, kpi_name, ratio_val, budget_val) ==
    [platform |-> p, objective |-> g, kpi_name |-> kpi_name,
     ratio_kpi_per_budget |-> ratio_val, allocated_budget |-> budget_val,
     predicted_kpi |-> ratio_val * budget_val]

\* the sort key order of rows.sort (line 324) on the names used here
PlatformOrder == << "fb", "ig", "li", "yt" >>
GoalOrder == << "aw", "en", "lg", "wt" >>
KpiOrder == << "clicks", "eng", "reach" >>

RECURSIVE Flatten(_)
Flatten(ss) == IF ss = <<>> THEN <<>> ELSE Head(ss) \o Flatten(Tail(ss))

\* every (platform, goal, kpi) key in sort order
SortedKeys ==
    Flatten([i \in DOMAIN PlatformOrder |->
        Flatten([j \in DOMAIN GoalOrder |->
            [k \in DOMAIN KpiOrder |-> << PlatformOrder[i], GoalOrder[j], KpiOrder[k] >>]])])

\* variant: any funded pair passes, whatever the threshold
HasBudgetPositive(allocation_pg, pr, threshold) == allocation_pg[pr[1]][pr[2]] > 0

\* the pairs that pass the activity threshold (line 281)
HasBudget(allocation_pg, pr, threshold) == ~(allocation_pg[pr[1]][pr[2]] < threshold)

\* the main loop of compute_module6_forecast (lines 270-327) on the normalised
\* allocation and ratios
ForecastLoop(kpi_ratios_in, allocation_pg, ratios_pgv, threshold) ==
    LET pairs == PairsOf(allocation_pg)
        funded == {pr \in pairs : HasBudget(allocation_pg, pr, threshold)}
        withRatios == {pr \in funded : RatiosForGoal(ratios_pgv, pr[1], pr[2]) # <<>>}
        used == {t \in UNION {{<< pr[1], pr[2], k >> :
                                  k \in DOMAIN RatiosForGoal(ratios_pgv, pr[1], pr[2])} :
                              pr \in withRatios} :
                    ItemUsed(ratios_pgv[t[1]][t[2]][t[3]], allocation_pg[t[1]][t[2]])}
        itemsTotal == SumSet(withRatios,
                        [pr \in withRatios |->
                            Cardinality(DOMAIN RatiosForGoal(ratios_pgv, pr[1], pr[2]))])
        known_p == DOMAIN allocation_pg
        known_g == {pr[2] : pr \in pairs}
        ratioGoalKeys == PairsOf(kpi_ratios_in)
    IN  [rows |->
            LET keys == SelectSeq(SortedKeys, LAMBDA t : t \in used)
            IN  [i \in DOMAIN keys |->
                    ForecastRow(keys[i][1], keys[i][2], keys[i][3],
                        ratios_pgv[keys[i][1]][keys[i][2]][keys[i][3]],
                        allocation_pg[keys[i][1]][keys[i][2]])],
         diagnostics |->
            [total_rows |-> Cardinality(used),
             total_platform_goal_pairs_seen |-> Cardinality(pairs),
             total_platform_goal_pairs_with_budget |-> Cardinality(funded),
             covered_platform_goal_pairs |->
                 Cardinality({pr \in withRatios : \E t \in used : t[1] = pr[1] /\ t[2] = pr[2]}),
             skipped_zero_or_small_budget_pg |-> Cardinality(pairs \ funded),
             skipped_missing_ratios_pg |-> Cardinality(funded \ withRatios),
             skipped_invalid_ratio_items |-> itemsTotal - Cardinality(used),
             allocation_platforms_seen |-> Cardinality(known_p),
             ratios_platforms_seen |-> Cardinality({NormPlatform(p) : p \in DOMAIN kpi_ratios_in}),
             allocation_goals_seen |-> Cardinality(known_g),
             ratios_goals_seen |-> Cardinality({NormGoal(pg[2]) : pg \in ratioGoalKeys}),
             unknown_platform_in_ratios |->
                 IF known_p = {} THEN 0
                 ELSE Cardinality({p \in DOMAIN kpi_ratios_in : NormPlatform(p) \notin known_p}),
             unknown_goal_in_ratios |->
                 IF known_g = {} THEN 0
                 ELSE Cardinality({pg \in ratioGoalKeys : NormGoal(pg[2]) \notin known_g}),
             budget_missing_or_invalid_in_allocation |->
                 Cardinality({pr \in pairs : allocation_pg[pr[1]][pr[2]] <= 0}),
             ratios_non_dict_or_invalid |-> 0,
             ratios_items_total |-> itemsTotal,
             ratios_items_positive_used |-> Cardinality(used)]]

\* compute_module6_forecast (threshold > 0)
ComputeModule6Forecast(kpi_ratios_in, allocation_raw, threshold) ==
    CHOOSE res \in { ForecastLoop(kpi_ratios_in, allocation_pg, ratios_pgv, threshold) :
                        allocation_pg \in {NormaliseAllocationPg(allocation_raw)},
                        ratios_pgv \in {NormaliseRatiosPgv(kpi_ratios_in)} } : TRUE

NotRun == [status |-> "not run", rows |-> <<>>, diagnostics |-> <<>>]

\* a call compute_module6_forecast(kpi_ratios, module5_result, min_budget_threshold)
ComputeForecast ==
    /\ fc_out.status = "not run"
    /\ fc_in.called
    /\ IF fc_in.min_budget_threshold <= 0
       THEN fc_out' = [status |-> "ValueError", rows |-> <<>>, diagnostics |-> <<>>]
       ELSE \E res \in {ComputeModule6Forecast(fc_in.kpi_ratios,
                              fc_in.module5_result.budget_per_platform_goal,
                              fc_in.min_budget_threshold)} :
                fc_out' = [status |-> "returned", rows |-> res.rows,
                           diagnostics |-> res.diagnostics]
    /\ UNCHANGED << fc_in, wizard, stages, m5call, insight >>

\* ======================================================= Module 7: insight

\* ---- float arithmetic, exact: a value is a reduced fraction [n, d], d > 0
RECURSIVE Gcd(_, _)
Gcd(a, b) == IF b = 0 THEN a ELSE Gcd(b, a % b)

Abs(x) == IF x < 0 THEN 0 - x ELSE x

Q(n, d) ==
    LET g == Gcd(Abs(n), Abs(d))
        sgn == IF d < 0 THEN 0 - 1 ELSE 1
    IN  [n |-> (sgn * n) \div g, d |-> (sgn * d) \div g]

QInt(i) == [n |-> i, d |-> 1]
\* sums over the least common denominator, products reduced crosswise
QAdd(a, b) ==
    LET g == Gcd(a.d, b.d)
    IN  Q(a.n * (b.d \div g) + b.n * (a.d \div g), (a.d \div g) * b.d)
QNeg(a) == [n |-> 0 - a.n, d |-> a.d]
QSub(a, b) == QAdd(a, QNeg(b))
QMul(a, b) ==
    LET g1 == Gcd(Abs(a.n), b.d)
        g2 == Gcd(Abs(b.n), a.d)
    IN  Q((a.n \div g1) * (b.n \div g2), (a.d \div g2) * (b.d \div g1))
QDiv(a, b) == QMul(a, IF b.n < 0 THEN [n |-> 0 - b.d, d |-> 0 - b.n] ELSE [n |-> b.d, d |-> b.n])
QLe(a, b) == a.n * b.d <= b.n * a.d
QLt(a, b) == a.n * b.d < b.n * a.d
QMax0(a) == IF a.n > 0 THEN a ELSE QInt(0)

RECURSIVE QSum(_, _)
QSum(S, f) ==
    IF S = {} THEN QInt(0)
    ELSE LET x == CHOOSE y \in S : TRUE IN QAdd(f[x], QSum(S \ {x}, f))

\* _k: str(x).strip().lower() on the keys used here
Key(k) == NormGoal(NormPlatform(k))

PLATFORM_NAMES ==
    ("fb" :> "Facebook") @@ ("ig" :> "Instagram") @@ ("li" :> "LinkedIn") @@ ("yt" :> "YouTube")

GOAL_NAMES ==
    ("aw" :> "Awareness") @@ ("en" :> "Engagement") @@ ("wt" :> "Website Traffic")
        @@ ("lg" :> "Lead Generation")

\* None, where the code returns an Optional[str]
NoKey == ""

PName(code) == IF code = NoKey THEN "" ELSE Get(PLATFORM_NAMES, Key(code), code)
GName(code) == IF code = NoKey THEN "" ELSE Get(GOAL_NAMES, Key(code), code)

\* _platform_totals (no two keys of one dict used here normalise to the same key)
PlatformTotals(lp) ==
    LET bp == lp.budget_per_platform
        bpg == lp.budget_per_platform_goal
    IN  IF bp # <<>>
        THEN [pk \in {Key(k) : k \in DOMAIN bp} |->
                 Max0(bp[CHOOSE k \in DOMAIN bp : Key(k) = pk])]
        ELSE [pk \in {Key(k) : k \in DOMAIN bpg} |->
                 LET gmap == bpg[CHOOSE k \in DOMAIN bpg : Key(k) = pk]
                 IN  SumSet(DOMAIN gmap, [g \in DOMAIN gmap |-> Max0(gmap[g])])]

\* _goal_totals
GoalTotals(lp) ==
    LET bpg == lp.budget_per_platform_goal
        pairs == PairsOf(bpg)
    IN  [gg \in {Key(pr[2]) : pr \in pairs} |->
            LET mine == {pr \in pairs : Key(pr[2]) = gg}
            IN  SumSet(mine, [pr \in mine |-> Max0(bpg[pr[1]][pr[2]])])]

\* _dominant: the key of the largest value, the first such key in the dict's
\* order (a stable sort); None when the dict is empty or nothing is positive
Dominant(d, order) ==
    IF DOMAIN d = {} THEN NoKey
    ELSE LET top == CHOOSE v \in Range(d) : \A w \in Range(d) : w <= v
             keys == SelectSeq(order, LAMBDA k : k \in DOMAIN d /\ d[k] = top)
         IN  IF top <= 0 THEN NoKey ELSE Head(keys)

\* _ratio: the share of the largest value
Ratio(d) ==
    LET t == SumSet(DOMAIN d, [k \in DOMAIN d |-> Max0(d[k])])
        top == CHOOSE v \in {Max0(d[k]) : k \in DOMAIN d} :
                   \A k \in DOMAIN d : Max0(d[k]) <= v
    IN  IF t <= 0 THEN QInt(0) ELSE Q(top, t)

\* _nonzero_allocations: pairs with more than 1e-6 allocated
NonzeroAllocations(lp) ==
    LET bpg == lp.budget_per_platform_goal
    IN  Cardinality({pr \in PairsOf(bpg) : bpg[pr[1]][pr[2]] > 0})

\* _corner
Corner(lp) == NonzeroAllocations(lp) <= 2

\* round(v, 6) of an amount in whole units
Round6(v) == v

\* _alloc_signature
AllocSignature(lp) ==
    LET bpg == lp.budget_per_platform_goal
    IN  [pk \in {Key(p) : p \in DOMAIN bpg} |->
            LET gmap == bpg[CHOOSE p \in DOMAIN bpg : Key(p) = pk]
            IN  [gk \in {Key(g) : g \in DOMAIN gmap} |->
                    Round6(Max0(gmap[CHOOSE g \in DOMAIN gmap : Key(g) = gk]))]]

\* list(bundle.results_by_scenario.keys()): scenarios in the order they were solved
ScenarioKeys(bundle) ==
    LET sm == bundle.scenario_multipliers
        solvedOnes == SelectSeq(sm, LAMBDA e : e.name \in DOMAIN bundle.results_by_scenario)
    IN  [i \in DOMAIN solvedOnes |-> solvedOnes[i].name]

\* _allocations_identical
AllocationsIdentical(bundle) ==
    LET keys == ScenarioKeys(bundle)
    IN  IF Len(keys) <= 1 THEN TRUE
        ELSE \A i \in 2..Len(keys) :
                AllocSignature(bundle.results_by_scenario[keys[i]])
                    = AllocSignature(bundle.results_by_scenario[keys[1]])

\* _stability_text
StabilityText(bundle) ==
    IF Len(ScenarioKeys(bundle)) <= 1 THEN "Only one scenario result is available."
    ELSE IF AllocationsIdentical(bundle)
    THEN "The allocation decision is stable across scenarios. Scenario multipliers scale objective values, "
         \o "but they do not change the optimal ranking of channel and objective options in the tested range."
    ELSE "The allocation changes across scenarios. This indicates the scenario assumptions shift the ranking "
         \o "between channel and objective options, so the decision is scenario sensitive."

\* variant: only an exactly met floor is binding
WithinToleranceExact(actual, req) == actual = req

\* the test of lines 191 and 203: abs(actual - req) <= max(1e-6, 1e-3 * req), req >= 1
WithinTolerance(actual, req) == 1000 * Abs(actual - req) <= req

\* one loop of _constraints: the labels of the floors that are binding
\* (binding = TRUE) or exceeded (binding = FALSE), in the dict's order
FloorLabels(floors, totals, order, prefix, names, binding) ==
    LET Req(k) == Max0(SafeFloat(floors[k], 0))
        Actual(k) == Max0(Get(totals, Key(k), 0))
        listed == SelectSeq(order,
                     LAMBDA k : /\ k \in DOMAIN floors
                                /\ Req(k) > 0
                                /\ IF binding THEN WithinTolerance(Actual(k), Req(k))
                                   ELSE /\ ~WithinTolerance(Actual(k), Req(k))
                                        /\ Actual(k) > Req(k))
    IN  [i \in DOMAIN listed |-> prefix \o Get(names, Key(listed[i]), Key(listed[i]))]

\* _constraints(state, lp): the binding and the non-binding floors
Constraints(min_p, min_g, lp) ==
    LET pt == PlatformTotals(lp)
        gt == GoalTotals(lp)
    IN  [b |-> FloorLabels(min_p, pt, PlatformOrder, "Minimum spend on ", PLATFORM_NAMES, TRUE)
                 \o FloorLabels(min_g, gt, GoalOrder, "Minimum budget for ", GOAL_NAMES, TRUE),
         nb |-> FloorLabels(min_p, pt, PlatformOrder, "Minimum spend on ", PLATFORM_NAMES, FALSE)
                 \o FloorLabels(min_g, gt, GoalOrder, "Minimum budget for ", GOAL_NAMES, FALSE)]

\* variant: concentration is judged before the scenarios are compared
ClassificationCornerFirst(bundle, lp) ==
    LET pr == Ratio(PlatformTotals(lp))
        nz == NonzeroAllocations(lp)
    IN  IF QLe(Q(80, 100), pr) \/ nz <= 2 THEN "Corner-dominant"
        ELSE IF ~AllocationsIdentical(bundle) THEN "Scenario-sensitive"
        ELSE IF nz >= 3 /\ QLe(pr, Q(70, 100)) THEN "Balanced"
        ELSE "Unclear"

\* variant: a share of exactly 0.80 does not count as concentrated
ClassificationStrictCorner(bundle, lp) ==
    IF ~AllocationsIdentical(bundle) THEN "Scenario-sensitive"
    ELSE LET pr == Ratio(PlatformTotals(lp))
             nz == NonzeroAllocations(lp)
         IN  IF QLt(Q(80, 100), pr) \/ nz <= 2 THEN "Corner-dominant"
             ELSE IF nz >= 3 /\ QLe(pr, Q(70, 100)) THEN "Balanced"
             ELSE "Unclear"

\* _classification
Classification(bundle, lp) ==
    IF ~AllocationsIdentical(bundle) THEN "Scenario-sensitive"
    ELSE LET pr == Ratio(PlatformTotals(lp))
             nz == NonzeroAllocations(lp)
         IN  IF QLe(Q(80, 100), pr) \/ nz <= 2 THEN "Corner-dominant"
             ELSE IF nz >= 3 /\ QLe(pr, Q(70, 100)) THEN "Balanced"
             ELSE "Unclear"

\* forecasts.get(s_name) if forecasts else None
NoForecast == [none |-> TRUE, rows |-> <<>>]
ForecastOf(forecasts, s_name) ==
    IF s_name \in DOMAIN forecasts THEN forecasts[s_name] ELSE NoForecast

\* " ".join(issues)
RECURSIVE JoinWith(_, _)
JoinWith(parts, sep) ==
    IF parts = <<>> THEN ""
    ELSE IF Len(parts) = 1 THEN parts[1]
    ELSE parts[1] \o sep \o JoinWith(Tail(parts), sep)

\* _data_quality_note: the note, "" for None (predicted KPIs are in hundredths)
DataQualityNote(lp, fc) ==
    LET small == Cardinality({i \in DOMAIN fc.rows : fc.rows[i].predicted_kpi < 500})
        total == Len(fc.rows)
        rowIssue ==
            IF fc.rows = <<>>
            THEN << "No forecast rows are available for this scenario." >>
            ELSE IF total > 0 /\ 2 * small >= total
            THEN << "Many forecast KPI values are very small, which may indicate unit or scaling issues in the input data." >>
            ELSE <<>>
        rpgIssue ==
            IF lp.r_pg = <<>> THEN << "Productivity ratios are missing in the LP result." >>
            ELSE <<>>
    IN  JoinWith(rowIssue \o rpgIssue, " ")

\* variant: the score is capped at 100 only
ClampScoreAbove(score) == IF score > 100 THEN 100 ELSE score

\* the clamp at the end of _confidence
ClampScore(score) == IF score < 40 THEN 40 ELSE IF score > 100 THEN 100 ELSE score

\* _confidence
Confidence(lp, bundle, fc, dq_note) ==
    LET pr == Ratio(PlatformTotals(lp))
        nz == NonzeroAllocations(lp)
        score == 100
                 - (IF QLe(Q(90, 100), pr) THEN 20 ELSE IF QLe(Q(80, 100), pr) THEN 12 ELSE 0)
                 - (IF nz <= 2 THEN 8 ELSE 0)
                 - (IF ~AllocationsIdentical(bundle) THEN 10 ELSE 0)
                 - (IF fc.rows = <<>> THEN 18 ELSE 0)
                 - (IF dq_note # "" THEN 12 ELSE 0)
    IN  ClampScore(score)

\* the unit of a productivity times a combined weight, and of the objective
ObjUnit == MultUnit * WeightUnit * WeightUnit

\* _score_pg: the positive scores r x combined weight, keys normalised
ScorePg(lp) ==
    LET rpg == lp.r_pg
        wpg == lp.combined_weight_pg
        Val(p, g) == Max0(rpg[p][g]) * Max0(Get(Get(wpg, p, <<>>), g, 0))
        Src(pk) == CHOOSE p \in DOMAIN rpg : Key(p) = pk
        kept == {pk \in {Key(p) : p \in DOMAIN rpg} :
                    \E g \in DOMAIN rpg[Src(pk)] : Val(Src(pk), g) > 0}
    IN  [pk \in kept |->
            LET p == Src(pk)
                goals == {g \in DOMAIN rpg[p] : Val(p, g) > 0}
            IN  [gk \in {Key(g) : g \in goals} |->
                    Q(Val(p, CHOOSE g \in goals : Key(g) = gk), ObjUnit)]]

\* _objective_scale
ObjectiveScale(lp) ==
    LET raw == IF "objective_value_raw" \in DOMAIN lp THEN lp.objective_value_raw ELSE 0
        scaled == lp.objective_value
    IN  IF raw > 0 /\ scaled > 0 THEN Q(scaled, raw) ELSE QInt(1000)

\* _estimate_objective_value
EstimateObjectiveValue(allocation, lp) ==
    LET scores == ScorePg(lp)
        pairs == PairsOf(allocation)
        raw == QSum(pairs,
                  [pr \in pairs |->
                      QMul(QMax0(allocation[pr[1]][pr[2]]),
                           QMax0(Get(Get(scores, Key(pr[1]), <<>>), Key(pr[2]), QInt(0))))])
    IN  QMul(raw, ObjectiveScale(lp))

\* tradeoff_percent = None
NoTradeoff == [none |-> TRUE]

\* the allocation of _plan_a: keys normalised, negative amounts clamped
ClampedAllocation(lp) ==
    LET bpg == lp.budget_per_platform_goal
    IN  [pk \in {Key(p) : p \in DOMAIN bpg} |->
            LET gmap == bpg[CHOOSE p \in DOMAIN bpg : Key(p) = pk]
            IN  [gk \in {Key(g) : g \in DOMAIN gmap} |->
                    Max0(gmap[CHOOSE g \in DOMAIN gmap : Key(g) = gk])]]

\* _plan_a
PlanA(lp) ==
    LET dp == Dominant(PlatformTotals(lp), PlatformOrder)
        dg == Dominant(GoalTotals(lp), GoalOrder)
        alloc == ClampedAllocation(lp)
    IN  [allocation |-> [p \in DOMAIN alloc |-> [g \in DOMAIN alloc[p] |-> QInt(alloc[p][g])]],
         objective_value_estimate |-> Q(lp.objective_value, ObjUnit),
         kpi_focus |-> IF dp # NoKey /\ dg # NoKey THEN PName(dp) \o " and " \o GName(dg)
                       ELSE IF dp # NoKey THEN PName(dp)
                       ELSE IF dg # NoKey THEN GName(dg)
                       ELSE "No clear primary lane",
         tradeoff_percent |-> NoTradeoff]

\* sum(max(0.0, _f(v)) for v in gmap.values())
RowTotal(gmap) == QSum(DOMAIN gmap, [g \in DOMAIN gmap |-> QMax0(gmap[g])])

\* variant: a platform below its floor is left as it is
TopUpPlatformsNone(min_p, out, g0) == out

\* lines 361-371: a platform below its floor is topped up on the first goal
TopUpPlatforms(min_p, out, g0) ==
    [p \in DOMAIN out |->
        LET req == QInt(Max0(SafeFloat(Get(min_p, p, Num(0)), 0)))
        IN  IF req.n > 0 /\ QLt(RowTotal(out[p]), req)
            THEN (g0 :> QAdd(QMax0(Get(out[p], g0, QInt(0))), QSub(req, RowTotal(out[p]))))
                     @@ out[p]
            ELSE out[p]]

\* line 378-380: what the active platforms hold for goal g
GoalHeld(out, g) ==
    QSum(DOMAIN out, [p \in DOMAIN out |-> QMax0(Get(out[p], g, QInt(0)))])

\* the goals of goal_list that are below their floor
GoalsShort(min_g, out, goal_list) ==
    {g \in Range(goal_list) :
        LET req == Max0(SafeFloat(Get(min_g, g, Num(0)), 0))
        IN  req > 0 /\ QLt(GoalHeld(out, g), QInt(req))}

\* lines 373-385: a goal below its floor is topped up on the first platform
TopUpGoals(min_g, out, p0, short) ==
    IF short = {} THEN out
    ELSE (p0 :> ([g \in short |->
                     QAdd(QMax0(Get(Get(out, p0, <<>>), g, QInt(0))),
                          QSub(QInt(Max0(SafeFloat(Get(min_g, g, Num(0)), 0))),
                               GoalHeld(out, g)))]
                 @@ Get(out, p0, <<>>))) @@ out

\* the goals still short once the platforms were topped up, then topped up
ToppedUpGoals(min_g, out, goal_list, p0) ==
    TopUpGoals(min_g, out, p0, GoalsShort(min_g, out, goal_list))

\* the plan's allocation after lines 359-385: every floor that is not met is
\* topped up, a platform's on the first goal, a goal's on the first platform
ToppedUp(min_p, min_g, allocation, goal_list, platform_list) ==
    ToppedUpGoals(min_g,
        TopUpPlatforms(min_p,
            [p \in Range(platform_list) |-> Get(allocation, p, <<>>)],
            IF goal_list # <<>> THEN goal_list[1] ELSE "aw"),
        goal_list,
        IF platform_list # <<>> THEN platform_list[1] ELSE "fb")

\* lines 387-390: the amount the plan uses on the active pairs
UsedBudget(out, goal_list, platform_list) ==
    LET pairs == Range(platform_list) \X Range(goal_list)
    IN  QSum(pairs, [pr \in pairs |-> QMax0(Get(Get(out, pr[1], <<>>), pr[2], QInt(0)))])

\* lines 395-399: is the plan scaled back to the budget?
Rescaled(out, budget, goal_list, platform_list) ==
    QLt(budget, UsedBudget(out, goal_list, platform_list))

\* variant: the topped-up plan is returned as it is
ScaledToBudgetNever(out, budget, goal_list, platform_list) == out

\* lines 392-401: the topped-up plan, scaled back to the budget if it exceeds it
ScaledToBudget(out, budget, goal_list, platform_list) ==
    IF Rescaled(out, budget, goal_list, platform_list)
    THEN [p \in DOMAIN out |->
             IF p \in Range(platform_list)
             THEN [g \in DOMAIN out[p] |->
                      QMul(QMax0(out[p][g]),
                           QDiv(budget, UsedBudget(out, goal_list, platform_list)))]
             ELSE out[p]]
    ELSE out

\* _apply_minimums
ApplyMinimums(min_p, min_g, allocation, budget, goal_list, platform_list) ==
    ScaledToBudget(ToppedUp(min_p, min_g, allocation, goal_list, platform_list),
                   budget, goal_list, platform_list)

\* Plan B is not produced (_plan_b_risk_managed returns None)
NoPlan == [none |-> TRUE]

\* _plan_b_risk_managed raises KeyError: alloc_b has no row for the platform
PlanKeyError == [error |-> "KeyError"]

cap_top_platform_share == Q(70, 100)

\* variant: the freed amount is split evenly over the eligible pairs
SpreadRemainingEvenly(alloc_b, remaining, scores, weights) ==
    [p \in DOMAIN alloc_b |->
        [g \in DOMAIN alloc_b[p] |->
            IF <<p, g>> \in weights
            THEN QAdd(alloc_b[p][g], QDiv(remaining, QInt(Cardinality(weights))))
            ELSE alloc_b[p][g]]]

\* lines 473 and 484-485: the freed amount is added to the eligible pairs of
\* the other platforms in proportion to their scores
SpreadRemaining(alloc_b, remaining, scores, weights) ==
    LET total_w == QSum(weights, [pr \in weights |-> scores[pr[1]][pr[2]]])
    IN  [p \in DOMAIN alloc_b |->
            [g \in DOMAIN alloc_b[p] |->
                IF <<p, g>> \in weights
                THEN QAdd(alloc_b[p][g], QMul(remaining, QDiv(scores[p][g], total_w)))
                ELSE alloc_b[p][g]]]

\* lines 445-454: alloc_b with the dominant platform scaled down to the cap
CappedAllocation(top_alloc, top_p, factor, ap, vg) ==
    (top_p :> ([g \in DOMAIN top_alloc |-> QMul(QMax0(top_alloc[g]), factor)]
                  @@ [g \in Range(vg) |-> QInt(0)]))
        @@ [p \in Range(ap) |-> [g \in Range(vg) |-> QInt(0)]]

\* lines 456-458
Remaining(total, alloc_b, ap) ==
    QMax0(QSub(QInt(total), QSum(Range(ap), [p \in Range(ap) |-> RowTotal(alloc_b[p])])))

\* lines 460-471: the pairs the freed amount goes to
Weights(scores, top_p, vg) ==
    {pr \in PairsOf(scores) :
        pr[1] # top_p /\ pr[2] \in Range(vg) /\ scores[pr[1]][pr[2]].n > 0}

\* lines 492-494
Tradeoff(obj_a, obj_b) ==
    IF obj_a.n > 0
    THEN QMul(QMax0(QDiv(QSub(obj_a, obj_b), obj_a)), QInt(100))
    ELSE NoTradeoff

\* the PlanOutput of lines 474-501 for the final allocation alloc_b
PlanBOutput(alloc_b, obj_b, tradeoff) ==
    [allocation |-> alloc_b,
     objective_value_estimate |-> obj_b,
     kpi_focus |-> "Diversified execution",
     tradeoff_percent |-> tradeoff]

\* lines 473-501, with alloc_b after the floors were applied
PlanBEstimated(alloc_b, lp, obj_b, redistributed) ==
    PlanBOutput(alloc_b, obj_b,
                IF redistributed
                THEN Tradeoff(EstimateObjectiveValue(PlanA(lp).allocation, lp), obj_b)
                ELSE NoTradeoff)

PlanBFloored(alloc_b, lp, redistributed) ==
    PlanBEstimated(alloc_b, lp, EstimateObjectiveValue(alloc_b, lp), redistributed)

\* what a call of _plan_b_risk_managed returns, and whether _apply_minimums
\* scaled the allocation back to the budget in it (line 395)
Traced(plan, rescaled) == [plan |-> plan, rescaled |-> rescaled]

\* lines 475-501: alloc_b is handed to _apply_minimums and the plan is built
PlanBWithFloors(st, lp, total, vg, ap, alloc_b, redistributed) ==
    Traced(PlanBFloored(ApplyMinimums(st.min_spend_per_platform, st.min_budget_per_goal,
                                      alloc_b, QInt(total), vg, ap),
                        lp, redistributed),
           Rescaled(ToppedUp(st.min_spend_per_platform, st.min_budget_per_goal,
                             alloc_b, vg, ap),
                    QInt(total), vg, ap))

\* lines 441-501: the dominant platform is over the cap
PlanBSpread(st, lp, total, vg, ap, capped, scores, weights) ==
    IF weights = {}
    THEN PlanBWithFloors(st, lp, total, vg, ap, capped, FALSE)
    ELSE IF \E pr \in weights : pr[1] \notin Range(ap) THEN Traced(PlanKeyError, FALSE)
    ELSE PlanBWithFloors(st, lp, total, vg, ap,
                         SpreadRemaining(capped, Remaining(total, capped, ap),
                                         scores, weights),
                         TRUE)

PlanBOverCap(st, lp, total, vg, ap, top_p, factor, scores) ==
    IF DOMAIN scores = {} THEN Traced(NoPlan, FALSE)
    ELSE IF top_p \notin Range(ap) THEN Traced(PlanKeyError, FALSE)
    ELSE PlanBSpread(st, lp, total, vg, ap,
                     CappedAllocation(Get(PlanA(lp).allocation, top_p, <<>>),
                                      top_p, factor, ap, vg),
                     scores, Weights(scores, top_p, vg))

\* lines 420-439: the dominant platform of Plan A against the cap
PlanBCapped(st, lp, total, vg, ap, top_p, current_top, cap_value) ==
    IF top_p = NoKey THEN Traced(NoPlan, FALSE)
    ELSE IF QLe(QInt(current_top), cap_value)
    THEN Traced(PlanBOutput(PlanA(lp).allocation,
                            EstimateObjectiveValue(PlanA(lp).allocation, lp), QInt(0)),
                FALSE)
    ELSE PlanBOverCap(st, lp, total, vg, ap, top_p,
                      QDiv(cap_value, QInt(current_top)), ScorePg(lp))

PlanBDominant(st, lp, total, vg, ap, pt_a, top_p, cap) ==
    PlanBCapped(st, lp, total, vg, ap, top_p, Max0(Get(pt_a, top_p, 0)),
                QMul(QMax0(cap), QInt(total)))

PlanBTotals(st, lp, total, vg, ap, pt_a, cap) ==
    PlanBDominant(st, lp, total, vg, ap, pt_a, Dominant(pt_a, PlatformOrder), cap)

\* lines 409-418: the budget, the goals and the platforms Plan B is built for
PlanBInputs(st, lp, total, vg, ap, cap) ==
    IF total <= 0 THEN Traced(NoPlan, FALSE)
    ELSE IF vg = <<>> \/ ap = <<>> THEN Traced(NoPlan, FALSE)
    ELSE PlanBTotals(st, lp, total, vg, ap,
                     [p \in DOMAIN ClampedAllocation(lp) |-> SumDict(ClampedAllocation(lp)[p])],
                     cap)

\* a call _plan_b_risk_managed(state, lp); st holds the WizardState fields it reads
PlanBTrace(st, lp, cap) ==
    PlanBInputs(st, lp,
                IF Max0(lp.total_budget_used) > 0 THEN Max0(lp.total_budget_used)
                ELSE Max0(st.total_budget),
                [i \in DOMAIN st.valid_goals |-> Key(st.valid_goals[i])],
                [i \in DOMAIN st.active_platforms |-> Key(st.active_platforms[i])],
                cap)

\* _plan_b_risk_managed(state, lp): the PlanOutput, NoPlan for None
PlanBRiskManaged(st, lp, cap) == PlanBTrace(st, lp, cap).plan

\* variant: the stability explanation is not repeated among the recommendations
RisksRecsNoStability(classification, confidence, stability_text, dq_note, plan_b) ==
    LET corner == classification = "Corner-dominant"
        sensitive == classification = "Scenario-sensitive"
    IN  [risks |-> <<>>,
         recs |->
            (IF corner
             THEN << "Use the risk managed plan if you want to reduce concentration risk." >>
             ELSE <<>>)
            \o (IF sensitive
                THEN << "Keep a contingency portion of budget to switch lanes if performance deviates." >>
                ELSE <<>>)
            \o (IF dq_note # ""
                THEN << "Review the historical KPI values and ensure consistent units and time windows across platforms." >>
                ELSE <<>>)
            \o (IF confidence <= 55
                THEN << "Use this allocation as a starting point and validate with a short test cycle before committing the full budget." >>
                ELSE <<>>)]

\* _risks_recs; dq_note and stability_text are "" when absent
RisksRecs(classification, confidence, stability_text, dq_note, plan_b) ==
    LET corner == classification = "Corner-dominant"
        sensitive == classification = "Scenario-sensitive"
        costly == /\ "allocation" \in DOMAIN plan_b
                  /\ plan_b.tradeoff_percent # NoTradeoff
                  /\ QLe(QInt(5), plan_b.tradeoff_percent)
    IN  [risks |->
            (IF corner
             THEN << "Budget is highly concentrated, which increases dependency on a single channel." >>
             ELSE <<>>)
            \o (IF sensitive
                THEN << "The recommended allocation changes across scenarios, which suggests higher uncertainty." >>
                ELSE <<>>)
            \o (IF dq_note # ""
                THEN << "Data quality signals suggest the outputs should be treated as conditional." >>
                ELSE <<>>)
            \o (IF confidence <= 55 THEN << "Overall confidence is moderate to low." >> ELSE <<>>),
         recs |->
            (IF corner
             THEN << "Use the risk managed plan if you want to reduce concentration risk." >>
             ELSE <<>>)
            \o (IF sensitive
                THEN << "Keep a contingency portion of budget to switch lanes if performance deviates." >>
                ELSE <<>>)
            \o (IF dq_note # ""
                THEN << "Review the historical KPI values and ensure consistent units and time windows across platforms." >>
                ELSE <<>>)
            \o (IF confidence <= 55
                THEN << "Use this allocation as a starting point and validate with a short test cycle before committing the full budget." >>
                ELSE <<>>)
            \o (IF costly
                THEN << "Expect some efficiency loss when diversifying. The trade off is reported in Plan B." >>
                ELSE <<>>)
            \o (IF stability_text # "" THEN << stability_text >> ELSE <<>>)]

\* int(round(x)): to the nearest integer, a half to the even one (x >= 0)
RoundHalfEven(x) ==
    LET fl == x.n \div x.d
        twice == 2 * (x.n % x.d)
    IN  IF twice < x.d THEN fl
        ELSE IF twice > x.d THEN fl + 1
        ELSE IF fl % 2 = 0 THEN fl ELSE fl + 1

\* str(s_name).capitalize() on the scenario names used here
Capitalize(name) ==
    CASE name = "base" -> "Base"
      [] name = "optimistic" -> "Optimistic"
      [] name = "conservative" -> "Conservative"
      [] OTHER -> name

\* _summary_text
SummaryText(scenario_name, classification, confidence, lp, bindings, stability_text, dq_note) ==
    LET pt == PlatformTotals(lp)
        gt == GoalTotals(lp)
        dp == Dominant(pt, PlatformOrder)
        dg == Dominant(gt, GoalOrder)
        pr == RoundHalfEven(QMul(Ratio(pt), QInt(100)))
        gr == RoundHalfEven(QMul(Ratio(gt), QInt(100)))
        lane == IF dp # NoKey /\ dg # NoKey THEN PName(dp) \o " and " \o GName(dg)
                ELSE IF dp # NoKey THEN PName(dp)
                ELSE IF dg # NoKey THEN GName(dg)
                ELSE "no dominant lane"
        parts ==
            << "Scenario " \o scenario_name \o ": " \o classification
                   \o " decision with confidence score " \o ToString(confidence) \o "/100.",
               "The optimiser concentrates spend around " \o lane \o "." >>
            \o (IF dp # NoKey
                THEN << "Top platform share is about " \o ToString(pr) \o " percent." >>
                ELSE <<>>)
            \o (IF dg # NoKey
                THEN << "Top objective share is about " \o ToString(gr) \o " percent." >>
                ELSE <<>>)
            \o (IF bindings # <<>>
                THEN << "Binding constraints include " \o JoinWith(bindings, ", ") \o "." >>
                ELSE <<>>)
            \o (IF stability_text # "" THEN << stability_text >> ELSE <<>>)
            \o (IF dq_note # "" THEN << "Data quality note: " \o dq_note >> ELSE <<>>)
    IN  JoinWith(parts, " ")

\* decision_mode.strip().lower() on the modes used here
NormMode(mode) ==
    CASE mode = "Risk managed" -> "risk managed"
      [] mode = " Risk Managed " -> "risk managed"
      [] mode = "Performance first" -> "performance first"
      [] OTHER -> mode

\* variant: Plan B is built only on request
PlanBAttemptedOnRequest(decision_mode, classification) ==
    NormMode(decision_mode) = "risk managed"

\* lines 612-616: is _plan_b_risk_managed called for this scenario?
PlanBAttempted(decision_mode, classification) ==
    NormMode(decision_mode) = "risk managed" \/ classification = "Corner-dominant"

\* bindings[:3]
FirstThree(list) == SubSeq(list, 1, IF Len(list) < 3 THEN Len(list) ELSE 3)

\* the dataclass Module7ScenarioInsight built by one pass of the loop of run_module7
ScenarioInsight(st, bundle, forecasts, decision_mode, s_name) ==
    LET lp == bundle.results_by_scenario[s_name]
        fc == ForecastOf(forecasts, s_name)
        classification == Classification(bundle, lp)
        dq_note == DataQualityNote(lp, fc)
        confidence == Confidence(lp, bundle, fc, dq_note)
        cons == Constraints(st.min_spend_per_platform, st.min_budget_per_goal, lp)
        pt == PlatformTotals(lp)
        dp == Dominant(pt, PlatformOrder)
        dg == Dominant(GoalTotals(lp), GoalOrder)
        stability_text == StabilityText(bundle)
        plan_b == IF PlanBAttempted(decision_mode, classification)
                  THEN PlanBRiskManaged(st, lp, cap_top_platform_share)
                  ELSE NoPlan
        rr == RisksRecs(classification, confidence, stability_text, dq_note, plan_b)
    IN  [scenario_name |-> s_name,
         decision_mode |-> decision_mode,
         classification |-> classification,
         confidence_score |-> confidence,
         allocation_is_corner_solution |-> Corner(lp),
         concentration_ratio_top_platform |-> Ratio(pt),
         dominant_platform |-> IF dp # NoKey THEN PName(dp) ELSE NoKey,
         dominant_objective |-> IF dg # NoKey THEN GName(dg) ELSE NoKey,
         binding_constraints |-> cons.b,
         non_binding_constraints |-> cons.nb,
         scenario_stability_explanation |-> stability_text,
         data_quality_note |-> dq_note,
         plan_a |-> PlanA(lp),
         plan_b |-> plan_b,
         risks |-> rr.risks,
         recommendations |-> rr.recs,
         executive_summary |->
             SummaryText(Capitalize(s_name), classification, confidence, lp,
                         FirstThree(cons.b), "", dq_note)]

\* the data-quality notes _data_quality_note can return, in sorted order
SortedNotes ==
    << "Many forecast KPI values are very small, which may indicate unit or scaling issues in the input data.",
       "Many forecast KPI values are very small, which may indicate unit or scaling issues in the input data. Productivity ratios are missing in the LP result.",
       "No forecast rows are available for this scenario.",
       "No forecast rows are available for this scenario. Productivity ratios are missing in the LP result.",
       "Productivity ratios are missing in the LP result." >>

\* " ".join(sorted(set(global_dq))), "" for None
GlobalNote(insights) ==
    LET found == {insights[s].data_quality_note : s \in DOMAIN insights} \ {""}
    IN  JoinWith(SelectSeq(SortedNotes, LAMBDA note : note \in found), " ")

\* no call of run_module7 made
NoInsightCall == [called |-> FALSE]
NoInsight == [status |-> "not run"]

\* the WizardState fields run_module7 reads
StateView ==
    [total_budget |-> total_budget, valid_goals |-> valid_goals,
     active_platforms |-> active_platforms,
     min_spend_per_platform |-> min_spend_per_platform,
     min_budget_per_goal |-> min_budget_per_goal]

\* WizardState(): a state that was never filled, or was reset
FreshState ==
    [total_budget |-> 0, valid_goals |-> <<>>, active_platforms |-> <<>>,
     min_spend_per_platform |-> <<>>, min_budget_per_goal |-> <<>>]

\* the ratios the forecasts handed to run_module7 were projected with
InsightRatios ==
    ("fb" :> ("aw" :> ("reach" :> 500) @@ "en" :> ("eng" :> 100)))
        @@ ("ig" :> ("aw" :> ("reach" :> 600) @@ "en" :> ("eng" :> 100)))

\* the forecasts argument: None, a Module6Result without rows per scenario, or
\* the projection of each scenario's allocation
ForecastsFor(bundle, kind) ==
    IF kind = "none" THEN <<>>
    ELSE [s \in DOMAIN bundle.results_by_scenario |->
             [none |-> FALSE,
              rows |-> IF kind = "empty" THEN <<>>
                       ELSE ComputeModule6Forecast(InsightRatios,
                                bundle.results_by_scenario[s].budget_per_platform_goal,
                                1).rows]]

ForecastKinds == {"none", "empty", "projected"}
DecisionModes == {"Performance first", " Risk Managed "}

\* the bundle a caller holds once Module 5 has returned
HeldBundle == IF call = "run_module5" THEN module5_scenario_bundle ELSE returned

\* run_module7(state, bundle, forecasts, decision_mode)
RunModule7 ==
    /\ pc \in {"done", "returned"}
    /\ m7_out.status = "not run"
    /\ \E st \in {StateView, FreshState}, kind \in ForecastKinds, mode \in DecisionModes :
         \E bundle \in {HeldBundle} :
         \E forecasts \in {ForecastsFor(bundle, kind)} :
         \E insights \in {[s \in DOMAIN bundle.results_by_scenario |->
                              ScenarioInsight(st, bundle, forecasts, mode, s)]} :
            /\ m7_in' = [called |-> TRUE, state |-> st, bundle |-> bundle,
                         forecasts |-> forecasts, decision_mode |-> mode]
            /\ m7_out' =
                 IF \E s \in DOMAIN insights : insights[s].plan_b = PlanKeyError
                 THEN [status |-> "raised", error |-> "KeyError"]
                 ELSE [status |-> "returned",
                       scenario_insights |-> insights,
                       global_stability_explanation |-> StabilityText(bundle),
                       global_data_quality_note |-> GlobalNote(insights),
                       global_notes |-> <<>>,
                       plan_b_calls |->
                           {s \in DOMAIN insights :
                               PlanBAttempted(mode, insights[s].classification)},
                       plan_b_rescaled |->
                           {s \in DOMAIN insights :
                               /\ PlanBAttempted(mode, insights[s].classification)
                               /\ PlanBTrace(st, bundle.results_by_scenario[s],
                                             cap_top_platform_share).rescaled}]
    /\ UNCHANGED << wizard, stages, m5call, forecast >>

\* a call _constraints(state, lp)
ReadConstraints ==
    /\ m7_in.called
    /\ m7_out.status = "not run"
    /\ \E res \in {Constraints(m7_in.state.min_spend_per_platform,
                                m7_in.state.min_budget_per_goal, m7_in.lp)} :
          m7_out' = [status |-> "constraints", b |-> res.b, nb |-> res.nb]
    /\ UNCHANGED << m7_in, wizard, stages, m5call, forecast >>

\* ================================================================ inputs

Budgets == {MaxBudget - 1, MaxBudget}

\* WizardState after Modules 1-4 were completed in order
AtStep5 == [n \in 1..6 |-> n <= 4]

Shapes ==
    { [ap |-> << "fb" >>, vg |-> << "aw" >>],
      [ap |-> << "fb", "ig" >>, vg |-> << "aw" >>],
      [ap |-> << "fb", "ig" >>, vg |-> << "aw", "en" >>] }

FewShapes ==
    { [ap |-> << "fb" >>, vg |-> << "aw", "en" >>],
      [ap |-> << "fb", "ig" >>, vg |-> << "aw", "en" >>] }

\* kpi_ratios as Module 3 stores them: platform -> KPI variable -> ratio
KpiTable(a, b, c, d) ==
    ("fb" :> ("FB_AW_REACH" :> a @@ "FB_AW_IMPRESSION" :> b @@ "FB_EN_ENGAGEMENT" :> c))
    @@ ("ig" :> ("IG_AW_REACH" :> d @@ "IG_EN_ENGRATERATE" :> 200))

KpiTables ==
    {KpiTable(200, b, c, d) : b \in {0, 400}, c \in {0, 200}, d \in {0, 400}}

FewKpiTables == {KpiTable(200, 400, 200, 400), KpiTable(400, 0, 0, 0)}

\* platform_weights as Module 2 stores them (twelfths)
PlatformWeightTables ==
    { ("fb" :> ("aw" :> 6 @@ "en" :> 6)) @@ ("ig" :> ("aw" :> 6 @@ "en" :> 6)),
      ("fb" :> ("aw" :> 8 @@ "en" :> 4)) @@ ("ig" :> ("aw" :> 4 @@ "en" :> 8)) }

FewPlatformWeightTables ==
    { ("fb" :> ("aw" :> 8 @@ "en" :> 4)) @@ ("ig" :> ("aw" :> 4 @@ "en" :> 8)) }

SystemWeightTables == { <<>>, ("aw" :> 3 @@ "en" :> 1) }

\* declared floors (the attribute absent or empty: <<>>)
PlatformFloors ==
    { <<>>,
      ("ig" :> Num(1)),
      ("fb" :> Num(MaxBudget - 1) @@ "ig" :> Num(1)),
      ("fb" :> Num(MaxBudget + 1)) }

GoalFloors ==
    { <<>>,
      ("en" :> Num(1)),
      ("aw" :> Num(1) @@ "en" :> Num(MaxBudget - 1)) }

\* floors with values the extractor coerces, and floors of an inactive platform
OddPlatformFloors ==
    { <<>>,
      ("fb" :> Num(1) @@ "li" :> Num(MaxBudget)),
      ("fb" :> Num(0 - 1) @@ "ig" :> NotANumber),
      ("fb" :> Num(1) @@ "ig" :> Num(MaxBudget)) }

OddGoalFloors ==
    { <<>>,
      ("aw" :> NotANumber @@ "en" :> Num(1)),
      ("aw" :> Num(MaxBudget) @@ "en" :> Num(1)) }

TwoScenarios ==
    { << [name |-> "base", mult |-> Num(MultUnit)],
         [name |-> "optimistic", mult |-> Num(115)] >> }

MultiplierInputs ==
    { <<>>,
      << [name |-> "optimistic", mult |-> Num(200)] >>,
      << [name |-> "base", mult |-> Num(200)], [name |-> "low", mult |-> Num(50)] >>,
      << [name |-> "base", mult |-> Num(0 - 100)], [name |-> "bad", mult |-> NotANumber] >>,
      << [name |-> "zero", mult |-> Num(0)], [name |-> "base", mult |-> NotANumber] >>,
      << [name |-> "low", mult |-> Num(50)], [name |-> "base", mult |-> Num(MultUnit)] >>,
      << [name |-> "zero", mult |-> Num(0)] >> }

NoForecastCall ==
    [called |-> FALSE, kpi_ratios |-> <<>>,
     module5_result |-> [budget_per_platform_goal |-> <<>>], min_budget_threshold |-> 1]

\* the fields of Modules 2, 3, 4 and 6 as WizardState() declares them; the
\* attribute module6_scenario_result is absent until run_module6 sets it
InitStages ==
    /\ goals_by_platform = <<>>
    /\ priority_rank = <<>>
    /\ platform_priorities = <<>>
    /\ module3_data = <<>>
    /\ platform_budgets = <<>>
    /\ platform_kpis = <<>>
    /\ module4_result = NoResult
    /\ module6_result = NoResult
    /\ module6_scenario_result = NoResult

InitCall ==
    /\ call = "none"
    /\ pc = "idle"
    /\ lp_input = EmptyInput
    /\ todo = <<>>
    /\ results = <<>>
    /\ raised = NoError
    /\ returned = NoBundle
    /\ solved = <<>>

InitM5(shapes, kpis, pweights, sweights, pfloors, gfloors, mults) ==
    /\ current_step = 5
    /\ finalised = AtStep5
    /\ \E sh \in shapes : active_platforms = sh.ap /\ valid_goals = sh.vg
    /\ total_budget \in Budgets
    /\ kpi_ratios \in kpis
    /\ platform_weights \in pweights
    /\ system_goal_weights \in sweights
    /\ min_spend_per_platform \in pfloors
    /\ min_budget_per_goal \in gfloors
    /\ scenario_multipliers \in mults
    /\ module5_result = NoResult
    /\ module5_scenario_bundle = NoBundle
    /\ InitStages
    /\ InitCall
    /\ fc_in = NoForecastCall
    /\ fc_out = NotRun
    /\ m7_in = NoInsightCall
    /\ m7_out = NoInsight

\* allocation inputs: ratios, weights and floors vary
Init ==
    InitM5(Shapes, KpiTables, PlatformWeightTables, SystemWeightTables,
           PlatformFloors, GoalFloors, TwoScenarios)

\* policy inputs: floors and scenario multipliers vary
InitPolicy ==
    InitM5(FewShapes, FewKpiTables, FewPlatformWeightTables, {<<>>},
           OddPlatformFloors, OddGoalFloors, MultiplierInputs)

Next ==
    \/ RunModule5
    \/ CallLpScenarios
    \/ ScenarioStep
    \/ ReturnBundle
    \/ CompleteModule5

Spec == Init /\ [][Next]_vars

SpecPolicy == InitPolicy /\ [][Next]_vars

\* ------------------------------------------------------ forecast inputs
MaxAlloc == 2
MaxThreshold == 2

\* budget_per_platform_goal of a Module5LPResult
ForecastAllocations ==
    { ("fb" :> ("aw" :> x @@ "en" :> y)) @@ ("ig" :> ("aw" :> z)) @@ ("li" :> <<>>) :
          x \in 0..MaxAlloc, y \in 0..MaxAlloc, z \in 0..MaxAlloc }

\* kpi_ratios as the projector reads them: platform -> goal -> KPI name -> ratio
ForecastRatioTables ==
    { ("fb" :> (("aw" :> fbaw) @@ fben)) @@ other :
          fbaw \in { <<>>,
                     ("reach " :> 200),
                     ("reach" :> 200 @@ "clicks" :> 0),
                     ("reach" :> (0 - 100) @@ " clicks" :> 50),
                     ("reach" :> 0 @@ "clicks" :> (0 - 100)) },
          fben \in { <<>>, ("En" :> ("eng" :> 50)) },
          other \in { <<>>,
                      ("IG" :> ("AW" :> ("reach" :> 300))),
                      ("yt" :> ("wt" :> ("clicks" :> 100))) } }

InitForecast ==
    /\ current_step = 1
    /\ finalised = [n \in 1..6 |-> FALSE]
    /\ active_platforms = <<>>
    /\ valid_goals = <<>>
    /\ total_budget = 0
    /\ kpi_ratios = <<>>
    /\ platform_weights = <<>>
    /\ system_goal_weights = <<>>
    /\ min_spend_per_platform = <<>>
    /\ min_budget_per_goal = <<>>
    /\ scenario_multipliers = <<>>
    /\ module5_result = NoResult
    /\ module5_scenario_bundle = NoBundle
    /\ InitStages
    /\ InitCall
    /\ \E r \in ForecastRatioTables, al \in ForecastAllocations, t \in 0..MaxThreshold :
          fc_in = [called |-> TRUE, kpi_ratios |-> r,
                   module5_result |-> [budget_per_platform_goal |-> al],
                   min_budget_threshold |-> t]
    /\ fc_out = NotRun
    /\ m7_in = NoInsightCall
    /\ m7_out = NoInsight

NextForecast == ComputeForecast

SpecForecast == InitForecast /\ [][NextForecast]_vars

\* ------------------------------------------------------- insight inputs
InsightBudgets == {MaxBudget + 1, MaxBudget + 2}

\* the platforms, the goals and the KPI history of the campaign
InsightCases ==
    { [ap |-> << "fb" >>, vg |-> << "aw" >>, kr |-> KpiTable(0, 0, 0, 0)],
      [ap |-> << "fb" >>, vg |-> << "aw" >>, kr |-> KpiTable(400, 400, 200, 200)],
      [ap |-> << "fb", "ig" >>, vg |-> << "aw", "en" >>, kr |-> KpiTable(200, 200, 200, 200)],
      [ap |-> << "fb", "ig" >>, vg |-> << "aw", "en" >>, kr |-> KpiTable(400, 400, 200, 200)],
      [ap |-> << "fb", "ig" >>, vg |-> << "aw", "en" >>, kr |-> KpiTable(400, 400, 200, 400)],
      [ap |-> << "fb", "ig" >>, vg |-> << "aw", "en" >>, kr |-> KpiTable(400, 400, 600, 600)],
      \* no history was recorded for Instagram
      [ap |-> << "fb", "ig" >>, vg |-> << "aw", "en" >>,
       kr |-> ("fb" :> ("FB_AW_REACH" :> 400 @@ "FB_EN_ENGAGEMENT" :> 200))] }

InsightPlatformFloors == { <<>>, ("ig" :> Num(1)), ("ig" :> Num(2)) }
InsightGoalFloors == { <<>>, ("en" :> Num(1)) }

InitInsight ==
    /\ current_step = 5
    /\ finalised = AtStep5
    /\ \E c \in InsightCases :
          active_platforms = c.ap /\ valid_goals = c.vg /\ kpi_ratios = c.kr
    /\ total_budget \in InsightBudgets
    /\ platform_weights \in FewPlatformWeightTables
    /\ system_goal_weights = <<>>
    /\ min_spend_per_platform \in InsightPlatformFloors
    /\ min_budget_per_goal \in InsightGoalFloors
    /\ scenario_multipliers \in TwoScenarios
    /\ module5_result = NoResult
    /\ module5_scenario_bundle = NoBundle
    /\ InitStages
    /\ InitCall
    /\ fc_in = NoForecastCall
    /\ fc_out = NotRun
    /\ m7_in = NoInsightCall
    /\ m7_out = NoInsight

NextInsight == Next \/ RunModule7

SpecInsight == InitInsight /\ [][NextInsight]_vars

\* ---------------------------------------------------- constraint inputs
\* scenario results with large amounts, next to floors of 1000 and 2000
ConstraintResults ==
    { [budget_per_platform_goal |-> bpg,
       budget_per_platform |-> [p \in DOMAIN bpg |-> SumDict(bpg[p])]] :
          bpg \in { ("fb" :> ("aw" :> x @@ "en" :> y)) @@ ("ig" :> ("aw" :> z @@ "en" :> 0)) :
                       x \in {0, 999, 1000, 1001, 1002},
                       y \in {0, 1000, 1001},
                       z \in {0, 1, 2} } }

ConstraintPlatformFloors ==
    { <<>>,
      ("fb" :> Num(1000) @@ "ig" :> Num(0)),
      ("fb" :> Num(2000) @@ "ig" :> Num(1) @@ "li" :> Num(1000)),
      ("fb" :> NotANumber @@ "ig" :> Num(2)) }

ConstraintGoalFloors ==
    { <<>>,
      ("aw" :> Num(1000) @@ "en" :> Num(1000)),
      ("aw" :> Num(0 - 1000) @@ "en" :> Num(1001)) }

InitConstraints ==
    /\ current_step = 6
    /\ finalised = [n \in 1..6 |-> n <= 5]
    /\ active_platforms = << "fb", "ig" >>
    /\ valid_goals = << "aw", "en" >>
    /\ total_budget = 0
    /\ kpi_ratios = <<>>
    /\ platform_weights = <<>>
    /\ system_goal_weights = <<>>
    /\ min_spend_per_platform \in ConstraintPlatformFloors
    /\ min_budget_per_goal \in ConstraintGoalFloors
    /\ scenario_multipliers = <<>>
    /\ module5_result = NoResult
    /\ module5_scenario_bundle = NoBundle
    /\ InitStages
    /\ InitCall
    /\ fc_in = NoForecastCall
    /\ fc_out = NotRun
    /\ \E lp \in ConstraintResults :
          m7_in = [called |-> TRUE,
                   state |-> [min_spend_per_platform |-> min_spend_per_platform,
                              min_budget_per_goal |-> min_budget_per_goal],
                   lp |-> lp]
    /\ m7_out = NoInsight

NextConstraints == ReadConstraints

SpecConstraints == InitConstraints /\ [][NextConstraints]_vars

\* ============================================================ wizard flow

ValueError(m) == [cls |-> "ValueError", msg |-> m]
Module4ValidationError(m) == [cls |-> "Module4ValidationError", msg |-> m]

\* ALLOWED_OBJECTIVES of wizard_state.py and PLATFORMS of module2.py
ALLOWED_OBJECTIVES == {"aw", "en", "wt", "lg"}
PLATFORMS == << "fb", "ig", "li", "yt" >>

\* None, for a priority that is not set
None == "None"

\* PlatformPriority()
PlatformPriority == [selected |-> FALSE, priority_1 |-> None, priority_2 |-> None]

\* the first error of a list of checks, NoError if there is none
RECURSIVE FirstError(_)
FirstError(errs) ==
    IF errs = <<>> THEN NoError
    ELSE IF Head(errs) # NoError THEN Head(errs) ELSE FirstError(Tail(errs))

\* ---------------------------------------------------------------- Module 2

\* initialise_module2_state: a default entry for every platform that has none
InitialiseModule2(pp) == [p \in Range(PLATFORMS) |-> Get(pp, p, PlatformPriority)]

\* set_module2_inputs after its Module 1 guard (lines 88-126): [err, pp].  The
\* keys of priorities_input are platform codes here.
SetModule2Inputs(pp, selected_platforms, priorities_input) ==
    LET pp1 == InitialiseModule2(pp)
        selected_set == Range(selected_platforms)
        pp2 == [p \in DOMAIN pp1 |->
                   IF p \in selected_set
                   THEN [pp1[p] EXCEPT !.selected = TRUE]
                   ELSE PlatformPriority]
        pp3 == [p \in DOMAIN pp2 |->
                   IF p \in DOMAIN priorities_input /\ pp2[p].selected
                   THEN [pp2[p] EXCEPT !.priority_1 = priorities_input[p].priority_1,
                                       !.priority_2 = priorities_input[p].priority_2]
                   ELSE pp2[p]]
    IN  IF selected_set \ Range(PLATFORMS) # {}
        THEN [err |-> ValueError("Unknown platform codes in selection."), pp |-> pp1]
        ELSE [err |-> NoError, pp |-> pp3]

\* the rules 2a-2d of validate_module2 for one selected platform
PriorityError(p, prio, vg) ==
    LET p1 == prio.priority_1
        p2 == prio.priority_2
        On(text) == ValueError("On platform '" \o p \o "', " \o text)
    IN  IF p1 = None /\ p2 # None THEN On("you cannot set Priority 2 without Priority 1.")
        ELSE IF p1 # None /\ p2 # None /\ p1 = p2
            THEN On("Priority 1 and Priority 2 must be different.")
        ELSE IF p1 # None /\ p1 \notin Range(vg)
            THEN On("Priority 1 goal is not in valid goals from Module 1.")
        ELSE IF p2 # None /\ p2 \notin Range(vg)
            THEN On("Priority 2 goal is not in valid goals from Module 1.")
        ELSE IF Cardinality(Range(vg)) = 1 /\ p2 # None
            THEN On("you cannot set Priority 2 when there is only one valid goal in Module 1.")
        ELSE NoError

\* validate_module2 after its Module 1 guard (lines 142-193)
ValidateModule2(pp, vg) ==
    LET selected == SelectSeq(PLATFORMS, LAMBDA p : p \in DOMAIN pp /\ pp[p].selected)
    IN  IF vg = <<>>
        THEN ValueError("No valid goals from Module 1. Please restart the wizard.")
        ELSE IF selected = <<>>
        THEN ValueError("At least one platform must be selected in Module 2.")
        ELSE FirstError([i \in DOMAIN selected |-> PriorityError(selected[i], pp[selected[i]], vg)])

\* compute_priority_ranks (valid_goals is non-empty)
ComputePriorityRanks(pp, vg) ==
    [p \in Range(PLATFORMS) |->
        IF p \notin DOMAIN pp \/ ~pp[p].selected THEN <<>>
        ELSE [g \in Range(vg) |->
                 IF pp[p].priority_1 = None /\ pp[p].priority_2 = None THEN 1
                 ELSE IF g = pp[p].priority_1 THEN 1
                 ELSE IF pp[p].priority_2 # None /\ g = pp[p].priority_2 THEN 2
                 ELSE 3]]

\* compute_platform_weights: score 4 - rank, normalised per platform (every
\* goal has a rank, so the total score is positive)
ComputePlatformWeights(pp, ranks, vg) ==
    [p \in Range(PLATFORMS) |->
        IF p \notin DOMAIN pp \/ ~pp[p].selected \/ Get(ranks, p, <<>>) = <<>> THEN <<>>
        ELSE LET scores == [g \in Range(vg) |-> 4 - ranks[p][g]]
             IN  [g \in Range(vg) |-> Normalise(scores[g], SumDict(scores))]]

\* derive_platform_goals_from_weights: [active_platforms, goals_by_platform]
DerivePlatformGoals(pw, vg) ==
    LET ActiveGoals(p) == SelectSeq(vg, LAMBDA g : Get(pw[p], g, 0) > 0)
        active == SelectSeq(PLATFORMS,
                      LAMBDA p : p \in DOMAIN pw /\ pw[p] # <<>> /\ ActiveGoals(p) # <<>>)
    IN  [active_platforms |-> active,
         goals_by_platform |-> [p \in Range(active) |-> ActiveGoals(p)]]

\* --------------------------------------------------- WizardState methods

\* an operation that runs to its end in one step: the call and what it raised
\* are what the caller gets
Finish(c, e) ==
    /\ call' = c
    /\ raised' = e
    /\ pc' = IF e = NoError THEN "done" ELSE "raised"
    /\ UNCHANGED << lp_input, todo, results, returned, solved >>

policy == << min_spend_per_platform, min_budget_per_goal, scenario_multipliers >>
flow == << current_step, finalised >>
module1_out == << valid_goals, total_budget, system_goal_weights >>
module2_out == << platform_priorities, priority_rank, platform_weights,
                  active_platforms, goals_by_platform >>
module3_out == << module3_data, platform_budgets, platform_kpis, kpi_ratios >>
module5_out == << module5_result, module5_scenario_bundle >>
module6_out == << module6_result, module6_scenario_result >>

\* _ensure_step
EnsureStep(expected_step, text) ==
    IF current_step # expected_step THEN FlowStateError("Invalid flow: expected=" \o text \o ".")
    ELSE NoError

\* what complete_module1_and_advance raises (lines 184-190); total_budget 0
\* stands for None
CompleteModule1Error(vg, budget) ==
    FirstError(<< EnsureStep(1, "1"),
                  IF vg = <<>> THEN ValueError("At least one goal must be selected in Module 1.")
                  ELSE IF Range(vg) \ ALLOWED_OBJECTIVES # {}
                      THEN ValueError("Invalid goal codes in Module 1.")
                  ELSE NoError,
                  IF budget = 0 THEN ValueError("total_budget must not be None in Module 1.")
                  ELSE IF budget <= 1
                      THEN ValueError("total_budget must be greater than 1 in Module 1.")
                  ELSE NoError >>)

\* complete_module1_and_advance(valid_goals, total_budget, system_goal_weights)
CompleteModule1With(vg, budget, sgw) ==
    LET e == CompleteModule1Error(vg, budget)
    IN  /\ Finish("complete_module1_and_advance", e)
        /\ IF e # NoError
           THEN UNCHANGED << flow, module1_out >>
           ELSE /\ valid_goals' = vg
                /\ total_budget' = budget
                /\ system_goal_weights' = sgw
                /\ finalised' = [finalised EXCEPT ![1] = TRUE]
                /\ current_step' = 2
        /\ UNCHANGED << module2_out, module3_out, module4_result, module5_out, module6_out,
                        policy, forecast, insight >>

\* the checks of complete_module2_and_advance on one active platform (lines 234-266)
PlatformGoalsError(p, gbp) ==
    IF p \notin Range(PLATFORMS) THEN ValueError("Invalid platform code in Module 2: " \o p)
    ELSE IF Get(gbp, p, <<>>) = <<>>
        THEN ValueError("Platform " \o p \o " must have at least one goal in Module 2.")
    ELSE IF Range(gbp[p]) \ Range(valid_goals) # {}
        THEN ValueError("Platform " \o p \o " has goals not selected in Module 1.")
    ELSE NoError

PlatformMapsError(p, gbp, pr, pw) ==
    IF Range(Get(gbp, p, <<>>)) \ DOMAIN Get(pr, p, <<>>) # {}
    THEN ValueError("Module 2 priority_rank is missing goals for platform " \o p)
    ELSE IF Range(Get(gbp, p, <<>>)) \ DOMAIN Get(pw, p, <<>>) # {}
    THEN ValueError("Module 2 platform_weights is missing goals for platform " \o p)
    ELSE NoError

\* what complete_module2_and_advance raises (lines 226-266)
CompleteModule2Error(ap, gbp, pr, pw) ==
    FirstError(<< EnsureStep(2, "2"),
                  IF ~finalised[1]
                  THEN FlowStateError("Module 1 must be finalised before Module 2.")
                  ELSE NoError,
                  IF ap = <<>>
                  THEN ValueError("At least one platform must be selected in Module 2.")
                  ELSE NoError,
                  FirstError([i \in DOMAIN ap |-> PlatformGoalsError(ap[i], gbp)]),
                  FirstError([i \in DOMAIN ap |-> PlatformMapsError(ap[i], gbp, pr, pw)]) >>)

\* complete_module2_and_advance called with the given arguments
CompleteModule2With(a) ==
    LET e == CompleteModule2Error(a.active_platforms, a.goals_by_platform,
                                  a.priority_rank, a.platform_weights)
    IN  /\ Finish("complete_module2_and_advance", e)
        /\ IF e # NoError
           THEN UNCHANGED << flow, module2_out >>
           ELSE /\ active_platforms' = a.active_platforms
                /\ goals_by_platform' = a.goals_by_platform
                /\ priority_rank' = a.priority_rank
                /\ platform_weights' = a.platform_weights
                /\ platform_priorities' = a.platform_priorities
                /\ finalised' = [finalised EXCEPT ![2] = TRUE]
                /\ current_step' = 3
        /\ UNCHANGED << module1_out, module3_out, module4_result, module5_out, module6_out,
                        policy, forecast, insight >>

\* run_module2 after set_module2_inputs and validate_module2 passed
\* (lines 364-382): ranks, weights and the derived platforms are written to the
\* state, then complete_module2_and_advance is called with them
RunModule2Passed(pp) ==
    \E ranks \in {ComputePriorityRanks(pp, valid_goals)} :
    \E weights \in {ComputePlatformWeights(pp, ranks, valid_goals)} :
    \E d \in {DerivePlatformGoals(weights, valid_goals)} :
    \E e \in {CompleteModule2Error(d.active_platforms, d.goals_by_platform, ranks, weights)} :
        /\ platform_priorities' = pp
        /\ priority_rank' = ranks
        /\ platform_weights' = weights
        /\ active_platforms' = d.active_platforms
        /\ goals_by_platform' = d.goals_by_platform
        /\ Finish("run_module2", e)
        /\ IF e # NoError
           THEN UNCHANGED flow
           ELSE /\ finalised' = [finalised EXCEPT ![2] = TRUE]
                /\ current_step' = 3

\* run_module2(state, selected_platforms, priorities_input)
RunModule2With(selected_platforms, priorities_input) ==
    /\ IF ~finalised[1]
       THEN /\ Finish("run_module2",
                      ValueError("Module 1 must be finalised before setting Module 2 inputs."))
            /\ UNCHANGED << flow, module2_out >>
       ELSE \E s \in {SetModule2Inputs(platform_priorities, selected_platforms,
                                       priorities_input)} :
            \E e \in {FirstError(<< s.err, ValidateModule2(s.pp, valid_goals) >>)} :
                IF e # NoError
                THEN /\ platform_priorities' = s.pp
                     /\ Finish("run_module2", e)
                     /\ UNCHANGED << flow, priority_rank, platform_weights,
                                     active_platforms, goals_by_platform >>
                ELSE RunModule2Passed(s.pp)
    /\ UNCHANGED << module1_out, module3_out, module4_result, module5_out, module6_out,
                    policy, forecast, insight >>

\* ---------------------------------------------------------------- Module 3

\* the arguments module3.py builds from the data entered per platform
\* (lines 260-285): kpi_ratios[platform][kpi_var] = value / budget
Module3Args(entered) ==
    [module3_data |-> entered,
     platform_budgets |-> [p \in DOMAIN entered |-> entered[p].budget],
     platform_kpis |-> [p \in DOMAIN entered |-> entered[p].kpis],
     kpi_ratios |->
         [p \in DOMAIN entered |->
             IF entered[p].budget > 0
             THEN [k \in DOMAIN entered[p].kpis |->
                      (entered[p].kpis[k] * MultUnit) \div entered[p].budget]
             ELSE <<>>]]

\* the budget check of complete_module3_and_advance on one active platform
PlatformBudgetError(p, budgets) ==
    IF p \notin DOMAIN budgets THEN ValueError("Missing budget for platform " \o p \o " in Module 3.")
    ELSE IF budgets[p] <= 1
        THEN ValueError("Budget for platform " \o p \o " must be greater than 1 in Module 3.")
    ELSE NoError

\* what complete_module3_and_advance raises (lines 303-320)
CompleteModule3Error(a) ==
    FirstError(<< EnsureStep(3, "3"),
                  IF ~finalised[2]
                  THEN FlowStateError("Module 2 must be finalised before Module 3.")
                  ELSE NoError,
                  IF a.module3_data = <<>>
                  THEN ValueError("module3_data must not be empty in Module 3.")
                  ELSE NoError,
                  FirstError([i \in DOMAIN active_platforms |->
                                 PlatformBudgetError(active_platforms[i], a.platform_budgets)]) >>)

\* complete_module3_and_advance called with the given arguments
CompleteModule3With(a) ==
    LET e == CompleteModule3Error(a)
    IN  /\ Finish("complete_module3_and_advance", e)
        /\ IF e # NoError
           THEN UNCHANGED << flow, module3_out >>
           ELSE /\ module3_data' = a.module3_data
                /\ platform_budgets' = a.platform_budgets
                /\ platform_kpis' = a.platform_kpis
                /\ kpi_ratios' = a.kpi_ratios
                /\ finalised' = [finalised EXCEPT ![3] = TRUE]
                /\ current_step' = 4
        /\ UNCHANGED << module1_out, module2_out, module4_result, module5_out, module6_out,
                        policy, forecast, insight >>

\* ---------------------------------------------------------------- Module 4

\* _assert_module4_flow_allowed
Module4FlowError ==
    IF current_step # 4
    THEN FlowStateError("Module 4 can only run when current_step == 4.")
    ELSE IF ~finalised[3] THEN FlowStateError("Module 4 requires Module 3 to be finalised.")
    ELSE IF valid_goals = <<>>
        THEN Module4ValidationError("No valid goals available in wizard state.")
    ELSE IF active_platforms = <<>>
        THEN Module4ValidationError("No active platforms found when entering Module 4.")
    ELSE IF finalised[4]
        THEN FlowStateError("Module 4 has already been finalised. Reset the wizard to run it again.")
    ELSE NoError

\* the budget checks of run_module4 on one active platform (lines 102-117)
Module4BudgetError(p) ==
    IF p \notin DOMAIN platform_budgets
    THEN Module4ValidationError("Missing budget for platform " \o p \o " in platform_budgets.")
    ELSE IF platform_budgets[p] <= 1
        THEN Module4ValidationError("Budget for platform " \o p \o " must be greater than 1.")
    ELSE NoError

\* the KPI values run_module4 uses for a platform (lines 120-122)
KpisFor(p) ==
    IF Get(platform_kpis, p, <<>>) # <<>> THEN platform_kpis[p]
    ELSE Get(Get(module3_data, p, [kpis |-> <<>>]), "kpis", <<>>)

\* cpu_per_goal[p][g][kpi_name] = budget / kpi_value (lines 124-147)
CpuPerGoal ==
    LET Positive(p) == {k \in DOMAIN KpisFor(p) : KpisFor(p)[k] > 0}
        filled == {p \in Range(active_platforms) :
                      /\ Get(goals_by_platform, p, <<>>) # <<>>
                      /\ Positive(p) # {}}
    IN  [p \in filled |->
            [g \in Range(goals_by_platform[p]) |->
                [k \in Positive(p) |-> Q(platform_budgets[p], KpisFor(p)[k])]]]

Module4Result(cpu_per_goal) ==
    [cpu_per_goal |-> cpu_per_goal,
     valid_platforms |-> {p \in DOMAIN cpu_per_goal : cpu_per_goal[p] # <<>>}]

\* what complete_module4_and_advance raises
CompleteModule4Error ==
    FirstError(<< EnsureStep(4, "4"),
                  IF ~finalised[3]
                  THEN FlowStateError("Module 3 must be finalised before Module 4.")
                  ELSE NoError >>)

\* complete_module4_and_advance(module4_result) called by c
CompleteModule4With(c, result) ==
    LET e == CompleteModule4Error
    IN  /\ Finish(c, e)
        /\ IF e # NoError
           THEN UNCHANGED << flow, module4_result >>
           ELSE /\ module4_result' = result
                /\ finalised' = [finalised EXCEPT ![4] = TRUE]
                /\ current_step' = 5

\* run_module4(state, kpi_config)
RunModule4 ==
    /\ Idle
    /\ LET budgets == FirstError([i \in DOMAIN active_platforms |->
                                     Module4BudgetError(active_platforms[i])])
           e == IF Module4FlowError # NoError THEN Module4FlowError
                ELSE IF budgets # NoError THEN budgets
                ELSE IF CpuPerGoal = <<>>
                    THEN Module4ValidationError("Module 4 computed an empty cpu_per_goal table.")
                ELSE NoError
       IN  IF e # NoError
           THEN Finish("run_module4", e) /\ UNCHANGED << flow, module4_result >>
           ELSE CompleteModule4With("run_module4", Module4Result(CpuPerGoal))
    /\ UNCHANGED << module1_out, module2_out, module3_out, module5_out, module6_out,
                    policy, forecast, insight >>

\* ---------------------------------------------------------------- Module 5

\* what complete_module5_and_advance raises
CompleteModule5Error ==
    FirstError(<< EnsureStep(5, "5"),
                  IF ~finalised[4]
                  THEN FlowStateError("Module 4 must be finalised before Module 5.")
                  ELSE NoError >>)

\* complete_module5_and_advance(module5_result) called on its own
CompleteModule5With(result) ==
    LET e == CompleteModule5Error
    IN  /\ Finish("complete_module5_and_advance", e)
        /\ IF e # NoError
           THEN UNCHANGED << flow, module5_result >>
           ELSE /\ module5_result' = result
                /\ finalised' = [finalised EXCEPT ![5] = TRUE]
                /\ current_step' = 6
        /\ UNCHANGED << module1_out, module2_out, module3_out, module4_result,
                        module5_scenario_bundle, module6_out, policy, forecast, insight >>

\* the caller has the outcome of the call: the call and its locals are gone
Return ==
    /\ pc \in {"raised", "done"}
    /\ pc' = "idle"
    /\ call' = "none"
    /\ raised' = NoError
    /\ lp_input' = EmptyInput
    /\ todo' = <<>>
    /\ results' = <<>>
    /\ returned' = NoBundle
    /\ solved' = <<>>
    /\ UNCHANGED << wizard, stages, forecast, insight >>

\* ---------------------------------------------------------------- Module 6

\* _normalise_ratios_pgv (lines 192-220) on the table complete_module3_and_advance
\* stores, platform -> KPI variable -> float: no value of a platform's map is a
\* dict, so a platform with a non-empty map is kept and gets no goal
NormaliseStoredRatios(kpi_ratios_in) ==
    LET kept == {p \in DOMAIN kpi_ratios_in : kpi_ratios_in[p] # <<>>}
    IN  [pk \in {NormPlatform(p) : p \in kept} |-> <<>>]

\* compute_module6_forecast on the stored ratio table (threshold > 0)
StoredForecast(kpi_ratios_in, lp_res, threshold) ==
    CHOOSE res \in { ForecastLoop(kpi_ratios_in, allocation_pg, ratios_pgv, threshold) :
                        allocation_pg \in {NormaliseAllocationPg(lp_res.budget_per_platform_goal)},
                        ratios_pgv \in {NormaliseStoredRatios(kpi_ratios_in)} } : TRUE

\* compute_module6_forecast_for_scenarios
StoredScenarioForecast(kpi_ratios_in, bundle, threshold) ==
    [results_by_scenario |->
        [s \in DOMAIN bundle.results_by_scenario |->
            StoredForecast(kpi_ratios_in, bundle.results_by_scenario[s], threshold)]]

\* what run_module6 raises (lines 352-357, 250-251, 372-373)
RunModule6Error(min_budget_threshold) ==
    IF ~finalised[3] THEN ValueError("Module 6 requires Module 3 to be finalised.")
    ELSE IF ~finalised[5] THEN ValueError("Module 6 requires Module 5 to be finalised.")
    ELSE IF kpi_ratios = <<>>
        THEN ValueError("Module 6 requires state.kpi_ratios to be populated from Module 3.")
    ELSE IF module5_scenario_bundle = NoBundle /\ module5_result = NoResult
        THEN ValueError("Module 6 requires state.module5_result to be set.")
    ELSE IF min_budget_threshold <= 0
        THEN ValueError("min_budget_threshold must be greater than 0.")
    ELSE NoError

\* no next_step given
NoStep == 0

\* run_module6(state, min_budget_threshold, next_step)
RunModule6With(min_budget_threshold, next_step) ==
    LET e == RunModule6Error(min_budget_threshold)
    IN  /\ Finish("run_module6", e)
        /\ IF e # NoError
           THEN UNCHANGED << flow, module6_out >>
           ELSE /\ IF module5_scenario_bundle # NoBundle
                   THEN \E scenario_forecast \in
                            {StoredScenarioForecast(kpi_ratios, module5_scenario_bundle,
                                                    min_budget_threshold)} :
                            /\ module6_scenario_result' = scenario_forecast
                            /\ module6_result' = GetBase(scenario_forecast)
                   ELSE /\ module6_result' = StoredForecast(kpi_ratios, module5_result,
                                                            min_budget_threshold)
                        /\ module6_scenario_result' = NoResult
                /\ finalised' = [finalised EXCEPT ![6] = TRUE]
                /\ current_step' = IF next_step # NoStep THEN next_step
                                   ELSE IF current_step > 7 THEN current_step ELSE 7
        /\ UNCHANGED << module1_out, module2_out, module3_out, module4_result, module5_out,
                        policy, forecast, insight >>

\* what complete_module6 raises
CompleteModule6Error ==
    FirstError(<< EnsureStep(6, "6"),
                  IF ~finalised[5]
                  THEN FlowStateError("Module 5 must be finalised before Module 6.")
                  ELSE NoError >>)

\* complete_module6(module6_result)
CompleteModule6With(result) ==
    LET e == CompleteModule6Error
    IN  /\ Finish("complete_module6", e)
        /\ IF e # NoError
           THEN UNCHANGED << finalised, module6_result >>
           ELSE /\ module6_result' = result
                /\ finalised' = [finalised EXCEPT ![6] = TRUE]
        /\ UNCHANGED << current_step, module1_out, module2_out, module3_out, module4_result,
                        module5_out, module6_scenario_result, policy, forecast, insight >>

\* ------------------------------------------------------------------- reset

\* reset(): __init__ assigns the declared fields again; the attributes attached
\* to the object afterwards (module5_scenario_bundle, module6_scenario_result,
\* the policy attributes) are not fields and stay
Reset ==
    /\ Idle
    /\ Finish("reset", NoError)
    /\ current_step' = 1
    /\ finalised' = [n \in 1..6 |-> FALSE]
    /\ valid_goals' = <<>>
    /\ total_budget' = 0
    /\ system_goal_weights' = <<>>
    /\ platform_priorities' = <<>>
    /\ priority_rank' = <<>>
    /\ platform_weights' = <<>>
    /\ active_platforms' = <<>>
    /\ goals_by_platform' = <<>>
    /\ module3_data' = <<>>
    /\ kpi_ratios' = <<>>
    /\ platform_budgets' = <<>>
    /\ platform_kpis' = <<>>
    /\ module4_result' = NoResult
    /\ module5_result' = NoResult
    /\ module6_result' = NoResult
    /\ UNCHANGED << module5_scenario_bundle, module6_scenario_result, policy,
                    forecast, insight >>

\* ------------------------------------------------------------ flow inputs

FlowBudget == 2

GoalInputs == { <<>>, << "aw" >>, << "aw", "en" >> }
BudgetInputs == {1, FlowBudget}

PlatformSelections == { <<>>, << "fb" >>, << "fb", "ig" >> }

\* priorities_input: nothing, Awareness first on Facebook, and a second
\* priority without a first
PriorityInputs ==
    { <<>>,
      ("fb" :> [priority_1 |-> "aw", priority_2 |-> None]),
      ("fb" :> [priority_1 |-> None, priority_2 |-> "aw"]) }

\* arguments of a direct complete_module2_and_advance call: what Module 2
\* computes for Facebook alone, and nothing selected
Module2Args ==
    { LET pp == SetModule2Inputs(<<>>, << "fb" >>, <<>>).pp
          ranks == ComputePriorityRanks(pp, valid_goals)
          weights == ComputePlatformWeights(pp, ranks, valid_goals)
          d == DerivePlatformGoals(weights, valid_goals)
      IN  [active_platforms |-> d.active_platforms,
           goals_by_platform |-> d.goals_by_platform,
           priority_rank |-> ranks,
           platform_weights |-> weights,
           platform_priorities |-> pp],
      [active_platforms |-> <<>>,
       goals_by_platform |-> <<>>,
       priority_rank |-> <<>>,
       platform_weights |-> <<>>,
       platform_priorities |-> <<>>] }

\* the data entered in Module 3 for one platform
Entered(budget, kpis) == [time_window |-> "last 30 days", budget |-> budget, kpis |-> kpis]

EnteredData ==
    { <<>>,
      ("fb" :> Entered(2, ("FB_AW_REACH" :> 8 @@ "FB_EN_ENGAGEMENT" :> 4)))
          @@ ("ig" :> Entered(2, ("IG_AW_REACH" :> 4 @@ "IG_EN_ENGRATERATE" :> 4))) }

\* results handed to the complete_* methods directly
GivenModule5Result ==
    [budget_per_platform_goal |-> ("fb" :> ("aw" :> FlowBudget)),
     budget_per_platform |-> ("fb" :> FlowBudget),
     total_budget_used |-> FlowBudget,
     objective_value |-> 0,
     r_pg |-> ("fb" :> ("aw" :> 400)),
     combined_weight_pg |-> ("fb" :> ("aw" :> WeightUnit * WeightUnit)),
     estimated_kpi_per_platform_goal |-> ("fb" :> ("aw" :> 400 * FlowBudget))]

\* Module6Result(rows=[])
GivenModule6Result == [rows |-> <<>>, diagnostics |-> <<>>]

\* min_budget_threshold: the default 1.0, and a value that is rejected
MinBudgetThreshold == 1
Thresholds == {0, MinBudgetThreshold}
NextSteps == {NoStep, 5}

\* ----------------------------------------------------------- flow actions

CompleteModule1 ==
    /\ Idle
    /\ \E vg \in GoalInputs, budget \in BudgetInputs : CompleteModule1With(vg, budget, <<>>)

CompleteModule2 ==
    /\ Idle
    /\ \E a \in Module2Args : CompleteModule2With(a)

RunModule2 ==
    /\ Idle
    /\ \E selected_platforms \in PlatformSelections, priorities_input \in PriorityInputs :
          RunModule2With(selected_platforms, priorities_input)

CompleteModule3 ==
    /\ Idle
    /\ \E entered \in EnteredData : CompleteModule3With(Module3Args(entered))

CompleteModule4 ==
    /\ Idle
    /\ CompleteModule4With("complete_module4_and_advance", Module4Result(CpuPerGoal))
    /\ UNCHANGED << module1_out, module2_out, module3_out, module5_out, module6_out,
                    policy, forecast, insight >>

CompleteModule5Alone ==
    /\ Idle
    /\ CompleteModule5With(GivenModule5Result)

RunModule6 ==
    /\ Idle
    /\ \E min_budget_threshold \in Thresholds, next_step \in NextSteps :
          RunModule6With(min_budget_threshold, next_step)

CompleteModule6 ==
    /\ Idle
    /\ CompleteModule6With(GivenModule6Result)

\* WizardState(): the declared defaults, no attribute attached
InitFlow ==
    /\ current_step = 1
    /\ finalised = [n \in 1..6 |-> FALSE]
    /\ valid_goals = <<>>
    /\ total_budget = 0
    /\ system_goal_weights = <<>>
    /\ platform_weights = <<>>
    /\ active_platforms = <<>>
    /\ kpi_ratios = <<>>
    /\ min_spend_per_platform = <<>>
    /\ min_budget_per_goal = <<>>
    /\ scenario_multipliers = <<>>
    /\ module5_result = NoResult
    /\ module5_scenario_bundle = NoBundle
    /\ InitStages
    /\ InitCall
    /\ fc_in = NoForecastCall
    /\ fc_out = NotRun
    /\ m7_in = NoInsightCall
    /\ m7_out = NoInsight

NextFlow ==
    \/ CompleteModule1
    \/ CompleteModule2
    \/ RunModule2
    \/ CompleteModule3
    \/ CompleteModule4
    \/ RunModule4
    \/ RunModule5
    \/ ScenarioStep
    \/ ReturnBundle
    \/ CompleteModule5
    \/ CompleteModule5Alone
    \/ RunModule6
    \/ CompleteModule6
    \/ Reset
    \/ Return

SpecFlow == InitFlow /\ [][NextFlow]_vars

\* ================================================================ properties

\* C1: in every scenario result the allocations over all (platform, goal)
\* pairs sum to total_budget_used, and that sum is at most total_budget.
C1_BudgetCap ==
    \A s \in DOMAIN results :
        LET r == results[s]
            bpg == r.budget_per_platform_goal
            used == SumSet(DOMAIN bpg, [p \in DOMAIN bpg |-> SumDict(bpg[p])])
        IN  /\ r.total_budget_used = used
            /\ used <= lp_input.total_budget

\* a finished run with two scenario results, one of which spends the whole budget
C1_Witness ==
    /\ pc = "done"
    /\ Cardinality(DOMAIN results) = 2
    /\ \E s \in DOMAIN results : results[s].total_budget_used = lp_input.total_budget

\* C2: in every scenario result each platform of the optimisation with a
\* declared minimum spend > 0 gets at least that minimum, and each goal with a
\* declared minimum budget > 0 gets at least that minimum summed over the
\* platforms; and a solve whose budget cap and floors no allocation satisfies
\* yields no result: the call has raised and returns no bundle.
C2_FloorsRespected ==
    /\ \A s \in DOMAIN results :
          LET bpg == results[s].budget_per_platform_goal
              min_p == lp_input.min_spend_per_platform
              min_g == lp_input.min_budget_per_goal
          IN  /\ \A p \in DOMAIN bpg :
                    (p \in DOMAIN min_p /\ min_p[p] > 0)
                        => SumDict(bpg[p]) >= min_p[p]
              /\ \A g \in Range(lp_input.valid_goals) :
                    (g \in DOMAIN min_g /\ min_g[g] > 0)
                        => SumSet(DOMAIN bpg, [p \in DOMAIN bpg |-> bpg[p][g]]) >= min_g[g]
    /\ \A i \in DOMAIN solved :
          LET a == solved[i].args
              P == DOMAIN a.r_pg
              G == Range(a.valid_goals)
              Meets(x) ==
                  /\ SumSet(P \X G, x) <= a.total_budget
                  /\ \A p \in P : (p \in DOMAIN a.min_spend_per_platform
                                      /\ a.min_spend_per_platform[p] > 0)
                        => SumSet({p} \X G, x) >= a.min_spend_per_platform[p]
                  /\ \A g \in G : (g \in DOMAIN a.min_budget_per_goal
                                      /\ a.min_budget_per_goal[g] > 0)
                        => SumSet(P \X {g}, x) >= a.min_budget_per_goal[g]
          IN  (~ \E x \in [P \X G -> 0..a.total_budget] : Meets(x))
                  => /\ solved[i].scenario \notin DOMAIN results
                     /\ pc = "raised"
                     /\ raised.cls = "Module5ValidationError"
                     /\ returned = NoBundle

\* a finished run in which a goal floor holds with equality although the goal
\* has the smaller score
C2_Witness ==
    /\ pc = "done"
    /\ \E s \in DOMAIN results, g \in Range(lp_input.valid_goals) :
          LET bpg == results[s].budget_per_platform_goal
              min_g == lp_input.min_budget_per_goal
          IN  /\ g \in DOMAIN min_g
              /\ min_g[g] > 0
              /\ SumSet(DOMAIN bpg, [p \in DOMAIN bpg |-> bpg[p][g]]) = min_g[g]
              /\ results[s].total_budget_used = lp_input.total_budget
              /\ min_g[g] < lp_input.total_budget

\* a direct call whose floors no allocation within the budget satisfies
C2_InfeasibleWitness ==
    /\ pc = "raised"
    /\ solved # <<>>
    /\ solved[Len(solved)].status = "Infeasible"

\* C3: when run_module5 builds the optimiser input and the declared minimum
\* spends of the active platforms, or the declared minimum budgets of the valid
\* goals, sum to more than the total budget, the call raises the "Infeasible
\* policy" error, no scenario is ever solved, and nothing is returned or stored.
C3_FloorsOverBudget ==
    call = "run_module5" =>
        LET Declared(d, k) == IF k \in DOMAIN d /\ d[k].num /\ d[k].v > 0 THEN d[k].v ELSE 0
            P == Range(active_platforms)
            G == Range(valid_goals)
            sum_p == SumSet(P, [p \in P |-> Declared(min_spend_per_platform, p)])
            sum_g == SumSet(G, [g \in G |-> Declared(min_budget_per_goal, g)])
        IN  (sum_p > total_budget \/ sum_g > total_budget) =>
                /\ pc = "raised"
                /\ raised.cls = "Module5ValidationError"
                /\ raised.msg =
                      IF sum_p > total_budget
                      THEN "Infeasible policy: sum of minimum platform spends exceeds total budget."
                      ELSE "Infeasible policy: sum of minimum goal budgets exceeds total budget."
                /\ solved = <<>>
                /\ results = <<>>
                /\ returned = NoBundle
                /\ module5_result = NoResult
                /\ ~finalised[5]

\* run_module5 has rejected goal floors that exceed the budget while the
\* platform floors fit it
C3_Witness ==
    /\ call = "run_module5"
    /\ pc = "raised"
    /\ raised.msg = "Infeasible policy: sum of minimum goal budgets exceeds total budget."
    /\ min_spend_per_platform # <<>>

\* run_module5 has rejected platform floors that exceed the budget
C3_PlatformWitness ==
    /\ call = "run_module5"
    /\ pc = "raised"
    /\ raised.msg = "Infeasible policy: sum of minimum platform spends exceeds total budget."

\* C4: once the solve of a scenario has failed, the call has raised: no bundle
\* is returned, even when earlier scenarios were solved; and a run_module5
\* that raised leaves module5_finalised false, module5_result and the bundle
\* unset and current_step where it was.
C4_AbortWholeBundle ==
    /\ (\E i \in DOMAIN solved : solved[i].status \notin {"Optimal", "Feasible"})
          => pc = "raised"
    /\ pc = "raised" =>
          /\ returned = NoBundle
          /\ call = "run_module5" =>
                /\ ~finalised[5]
                /\ module5_result = NoResult
                /\ module5_scenario_bundle = NoBundle
                /\ current_step = 5

\* run_module5 raised on its second scenario after the first was solved
C4_Witness ==
    /\ call = "run_module5"
    /\ pc = "raised"
    /\ results # <<>>
    /\ Len(solved) = 2
    /\ solved[2].status = "Not Solved"

\* C5: a scenario has a result only if its solve ended Optimal or Feasible;
\* a solve that ended with any other status is the last one of the call (no
\* scenario is solved twice, none after the failure), leaves no result for
\* its scenario, and the call raises "LP solve failed with status: <status>".
C5_HardErrorOnStatus ==
    /\ \A s \in DOMAIN results :
          \E i \in DOMAIN solved :
              solved[i].scenario = s /\ solved[i].status \in {"Optimal", "Feasible"}
    /\ \A i, j \in DOMAIN solved : solved[i].scenario = solved[j].scenario => i = j
    /\ \A i \in DOMAIN solved :
          solved[i].status \notin {"Optimal", "Feasible"} =>
              /\ i = Len(solved)
              /\ solved[i].scenario \notin DOMAIN results
              /\ pc = "raised"
              /\ raised = [cls |-> "Module5ValidationError",
                           msg |-> "LP solve failed with status: " \o solved[i].status]
              /\ returned = NoBundle

\* the first solve of a call ended Infeasible and the call raised with that status
C5_Witness ==
    /\ Len(solved) = 1
    /\ results = <<>>
    /\ raised = [cls |-> "Module5ValidationError",
                 msg |-> "LP solve failed with status: Infeasible"]

\* C6: whatever scenario_multipliers the caller stored, the multiplier map the
\* policy extractor hands to the optimiser is non-empty, holds only positive
\* multipliers, and holds the entry "base" with multiplier exactly 1.0.
C6_BaseIsOne ==
    (call = "run_module5" /\ lp_input # EmptyInput) =>
        LET sm == lp_input.scenario_multipliers
        IN  /\ sm # <<>>
            /\ \A i \in DOMAIN sm : sm[i].mult > 0
            /\ \E i \in DOMAIN sm : sm[i].name = "base" /\ sm[i].mult = MultUnit

\* C7: in every bundle the orchestrator returns, the productivity table
\* recorded in the "base" result equals the input table r_pg.
C7_BaseReproducesInput ==
    (returned # NoBundle /\ "base" \in DOMAIN returned.results_by_scenario) =>
        returned.results_by_scenario["base"].r_pg = lp_input.r_pg

\* C8: every scenario of a call is solved with the input's goals, budget,
\* weights and floors; its productivity table is max(0, r_pg x multiplier)
\* entry by entry; the results of one bundle carry the same combined weights;
\* and while the scenarios run neither the input nor the wizard's fields change.
C8_OnlyProductivityVaries ==
    /\ [](\A i \in DOMAIN solved :
             LET a == solved[i].args
                 sm == lp_input.scenario_multipliers
                 m == sm[CHOOSE k \in DOMAIN sm : sm[k].name = solved[i].scenario].mult
             IN  /\ a.valid_goals = lp_input.valid_goals
                 /\ a.total_budget = lp_input.total_budget
                 /\ a.system_goal_weights = lp_input.system_goal_weights
                 /\ a.platform_goal_weights = lp_input.platform_goal_weights
                 /\ a.min_spend_per_platform = lp_input.min_spend_per_platform
                 /\ a.min_budget_per_goal = lp_input.min_budget_per_goal
                 /\ DOMAIN a.r_pg = DOMAIN lp_input.r_pg
                 /\ \A p \in DOMAIN a.r_pg :
                       /\ DOMAIN a.r_pg[p] = DOMAIN lp_input.r_pg[p]
                       /\ \A g \in DOMAIN a.r_pg[p] :
                             a.r_pg[p][g] =
                                 IF lp_input.r_pg[p][g] * m > 0
                                 THEN (lp_input.r_pg[p][g] * m) \div 100
                                 ELSE 0)
    /\ [](\A s, t \in DOMAIN results :
             results[s].combined_weight_pg = results[t].combined_weight_pg)
    /\ [][pc = "loop" => (lp_input' = lp_input /\ wizard' = wizard)]_vars

\* a returned bundle of two scenarios with a floor in force and different
\* productivity tables
C8_Witness ==
    /\ pc \in {"done", "returned"}
    /\ \E s, t \in DOMAIN results : results[s].r_pg # results[t].r_pg
    /\ \E p \in DOMAIN lp_input.min_spend_per_platform :
          lp_input.min_spend_per_platform[p] > 0

\* C9: when a solve ends Optimal with no floor in force and one pair has a
\* positive score combined_weight x ratio strictly above every other pair's,
\* that pair is allocated the whole budget, every other pair 0, and the
\* objective value is score x total_budget.
C9_WinnerTakesAll ==
    \A i \in DOMAIN solved :
        (solved[i].status = "Optimal" /\ solved[i].scenario \in DOMAIN results) =>
            LET a == solved[i].args
                r == results[solved[i].scenario]
                pairs == (DOMAIN r.r_pg) \X Range(a.valid_goals)
                Score(pr) == r.combined_weight_pg[pr[1]][pr[2]] * r.r_pg[pr[1]][pr[2]]
                NoFloors ==
                    /\ \A p \in DOMAIN a.min_spend_per_platform :
                          a.min_spend_per_platform[p] <= 0
                    /\ \A g \in DOMAIN a.min_budget_per_goal :
                          a.min_budget_per_goal[g] <= 0
            IN  \A best \in pairs :
                    (/\ NoFloors
                     /\ Score(best) > 0
                     /\ \A pr \in pairs \ {best} : Score(pr) < Score(best))
                    => /\ r.budget_per_platform_goal[best[1]][best[2]] = a.total_budget
                       /\ \A pr \in pairs \ {best} :
                             r.budget_per_platform_goal[pr[1]][pr[2]] = 0
                       /\ r.total_budget_used = a.total_budget
                       /\ r.objective_value = Score(best) * a.total_budget

\* a finished run over two platforms and two goals, no floors declared, in
\* which one pair holds the whole budget and the other three pairs have
\* smaller scores, two of them positive
C9_Witness ==
    /\ pc = "done"
    /\ min_spend_per_platform = <<>>
    /\ min_budget_per_goal = <<>>
    /\ Len(valid_goals) = 2
    /\ Len(active_platforms) = 2
    /\ \E best \in Range(active_platforms) \X Range(valid_goals) :
          LET r == results["base"]
              Score(pr) == r.combined_weight_pg[pr[1]][pr[2]] * r.r_pg[pr[1]][pr[2]]
              others == (Range(active_platforms) \X Range(valid_goals)) \ {best}
          IN  /\ r.budget_per_platform_goal[best[1]][best[2]] = total_budget
              /\ \A pr \in others : Score(pr) < Score(best)
              /\ Cardinality({pr \in others : Score(pr) > 0}) >= 2

\* C10: every row of a returned forecast has predicted_kpi = ratio x
\* allocated_budget with ratio > 0 and predicted_kpi > 0; its budget is the
\* allocation of its (platform, goal) pair and is at least the threshold; its
\* ratio is the one recorded for its KPI; so no row exists for a pair below
\* the threshold or for a ratio <= 0.
C10_ForecastRows ==
    fc_out.status = "returned" =>
        \A i \in DOMAIN fc_out.rows :
            LET row == fc_out.rows[i]
                alloc == fc_in.module5_result.budget_per_platform_goal
                kr == fc_in.kpi_ratios
            IN  /\ row.predicted_kpi = row.ratio_kpi_per_budget * row.allocated_budget
                /\ row.ratio_kpi_per_budget > 0
                /\ row.predicted_kpi > 0
                /\ row.allocated_budget >= fc_in.min_budget_threshold
                /\ \E p \in DOMAIN alloc :
                      /\ NormPlatform(p) = row.platform
                      /\ \E g \in DOMAIN alloc[p] :
                            /\ NormGoal(g) = row.objective
                            /\ alloc[p][g] = row.allocated_budget
                /\ \E p \in DOMAIN kr :
                      /\ NormPlatform(p) = row.platform
                      /\ \E g \in DOMAIN kr[p] :
                            /\ NormGoal(g) = row.objective
                            /\ \E k \in DOMAIN kr[p][g] :
                                  /\ NormKpi(k) = row.kpi_name
                                  /\ kr[p][g][k] = row.ratio_kpi_per_budget

\* a returned forecast with at least two rows in which a funded pair with a
\* positive ratio has no row because its allocation is below the threshold,
\* and a KPI of a pair with a row has none because its ratio is not positive
C10_Witness ==
    /\ fc_out.status = "returned"
    /\ Len(fc_out.rows) >= 2
    /\ LET alloc == fc_in.module5_result.budget_per_platform_goal
           kr == fc_in.kpi_ratios
       IN  /\ alloc["fb"]["en"] > 0
           /\ alloc["fb"]["en"] < fc_in.min_budget_threshold
           /\ "En" \in DOMAIN kr["fb"]
           /\ \A i \in DOMAIN fc_out.rows : fc_out.rows[i].objective # "en"
           /\ \E i \in DOMAIN fc_out.rows :
                 fc_out.rows[i].platform = "fb" /\ fc_out.rows[i].objective = "aw"
           /\ \E k \in DOMAIN kr["fb"]["aw"] : kr["fb"]["aw"][k] <= 0

\* C11: in every returned forecast the diagnostics account for every pair:
\* pairs seen = pairs skipped for small budget + pairs with budget; every pair
\* with budget is covered by a row or counted as skipped for missing ratios;
\* covered pairs <= pairs with budget; and total_rows = positive ratio items
\* used = ratio items total - items skipped for an invalid ratio.
C11_DiagnosticsAccount ==
    fc_out.status = "returned" =>
        LET d == fc_out.diagnostics
        IN  /\ d.total_platform_goal_pairs_seen
                  = d.skipped_zero_or_small_budget_pg + d.total_platform_goal_pairs_with_budget
            /\ d.total_platform_goal_pairs_with_budget
                  = d.covered_platform_goal_pairs + d.skipped_missing_ratios_pg
            /\ d.covered_platform_goal_pairs <= d.total_platform_goal_pairs_with_budget
            /\ d.total_rows = Len(fc_out.rows)
            /\ d.total_rows = d.ratios_items_positive_used
            /\ d.total_rows = d.ratios_items_total - d.skipped_invalid_ratio_items
\* the insight run_module7 returned, and the scenario results it was given
Returned == m7_out.status = "returned"
Insights == m7_out.scenario_insights
GivenResults == m7_in.bundle.results_by_scenario

\* the rounded allocation signatures of some two scenarios differ
SignaturesDiffer ==
    \E s, t \in DOMAIN GivenResults :
        AllocSignature(GivenResults[s]) # AllocSignature(GivenResults[t])

\* C12: if the rounded allocation signatures of any two scenarios of the
\* bundle differ, every scenario is classified "Scenario-sensitive"; if they
\* are all equal, no scenario is.
C12_SensitiveIffDiffer ==
    Returned =>
        \A s \in DOMAIN Insights :
            (Insights[s].classification = "Scenario-sensitive") <=> SignaturesDiffer

\* two scenarios were allocated differently and the insight was returned
C12_Witness ==
    /\ Returned
    /\ SignaturesDiffer
    /\ Cardinality(DOMAIN Insights) = 2
    /\ \A s \in DOMAIN Insights : Insights[s].classification = "Scenario-sensitive"

\* the top platform's share of the allocation of scenario s, and the number
\* of pairs of s that are funded
TopShare(s) == Ratio(PlatformTotals(GivenResults[s]))
Funded(s) == NonzeroAllocations(GivenResults[s])

\* C13: when all scenarios have identical allocations, a scenario is
\* "Corner-dominant" exactly when its top-platform share is at least 0.80 or
\* at most 2 pairs are funded; otherwise "Balanced" exactly when at least 3
\* pairs are funded and the share is at most 0.70; otherwise "Unclear", which
\* then means at least 3 funded pairs and a share strictly between 0.70 and 0.80.
C13_ClassificationRules ==
    (Returned /\ ~SignaturesDiffer) =>
        \A s \in DOMAIN Insights :
            LET c == Insights[s].classification
                corner == 100 * TopShare(s).n >= 80 * TopShare(s).d \/ Funded(s) <= 2
                balanced == Funded(s) >= 3 /\ 100 * TopShare(s).n <= 70 * TopShare(s).d
            IN  /\ (c = "Corner-dominant") <=> corner
                /\ (c = "Balanced") <=> (~corner /\ balanced)
                /\ (c = "Unclear") <=> (~corner /\ ~balanced)
                /\ (c = "Unclear") =>
                       /\ Funded(s) >= 3
                       /\ 100 * TopShare(s).n > 70 * TopShare(s).d
                       /\ 100 * TopShare(s).n < 80 * TopShare(s).d

\* identical allocations with three funded pairs and a share of 0.75
C13_Witness ==
    /\ Returned
    /\ ~SignaturesDiffer
    /\ \E s \in DOMAIN Insights :
          /\ Insights[s].classification = "Unclear"
          /\ Funded(s) = 3
          /\ TopShare(s) = Q(3, 4)

\* identical allocations with three funded pairs and a share of at most 0.70
C13_BalancedWitness ==
    /\ Returned
    /\ ~SignaturesDiffer
    /\ \E s \in DOMAIN Insights :
          Insights[s].classification = "Balanced" /\ Funded(s) >= 3

\* identical allocations with three funded pairs and a share of exactly 0.80
C13_CornerWitness ==
    /\ Returned
    /\ ~SignaturesDiffer
    /\ \E s \in DOMAIN Insights :
          /\ Insights[s].classification = "Corner-dominant"
          /\ Funded(s) >= 3
          /\ TopShare(s) = Q(4, 5)

\* C14: the confidence score of every scenario insight is an integer between
\* 40 and 100 inclusive, whatever the scenario, the bundle and the forecast.
C14_ConfidenceRange ==
    Returned => \A s \in DOMAIN Insights : Insights[s].confidence_score \in 40..100

\* every penalty applies (share 1.0 on one pair, allocations that differ, no
\* forecast): the penalties add up to 68 and the score is held at 40
C14_Witness ==
    /\ Returned
    /\ SignaturesDiffer
    /\ m7_in.forecasts = <<>>
    /\ \E s \in DOMAIN Insights :
          /\ TopShare(s) = QInt(1)
          /\ Funded(s) = 1
          /\ Insights[s].data_quality_note # ""
          /\ Insights[s].confidence_score = 40

\* C15: the confidence score is round(0.35 concentration + 0.20 stability
\* + 0.25 coverage + 0.20 data quality) clamped to [40, 100], for a
\* concentration component out of 100 that steps down with the top-platform
\* share, a stability component of 95 if the allocations are identical across
\* scenarios and 70 otherwise, a coverage component stepped between 60 and 95,
\* and a data-quality component of 90, or 70 if a flag was raised.
C15_WeightedConfidence ==
    Returned =>
        \A s \in DOMAIN Insights :
            \E concentration \in 0..100, coverage \in 60..95 :
                LET stability == IF SignaturesDiffer THEN 70 ELSE 95
                    data_quality == IF Insights[s].data_quality_note # "" THEN 70 ELSE 90
                IN  Insights[s].confidence_score =
                        ClampScore(RoundHalfEven(Q(35 * concentration + 20 * stability
                                                       + 25 * coverage + 20 * data_quality,
                                                   100)))

\* a Plan B was produced for scenario s
PlanBProduced(s) == "allocation" \in DOMAIN Insights[s].plan_b

\* C16: in every scenario insight with a Plan B, Plan B's objective value
\* estimate is at most Plan A's objective value.
C16_PlanBNotBetter ==
    Returned =>
        \A s \in DOMAIN Insights :
            PlanBProduced(s) =>
                QLe(Insights[s].plan_b.objective_value_estimate,
                    Insights[s].plan_a.objective_value_estimate)

\* Plan A's dominant platform holds at most cap x budget used in scenario s
UnderCap(s) == QLe(TopShare(s), cap_top_platform_share)

\* C18: if Plan A's dominant platform total is at or under cap x budget used,
\* the Plan B returned equals Plan A: the same per-pair allocation and the
\* same objective value, with a trade-off of exactly 0.
C18_UnderCapSamePlan ==
    Returned =>
        \A s \in DOMAIN Insights :
            (PlanBProduced(s) /\ UnderCap(s)) =>
                /\ Insights[s].plan_b.allocation = Insights[s].plan_a.allocation
                /\ Insights[s].plan_b.objective_value_estimate
                       = Insights[s].plan_a.objective_value_estimate
                /\ Insights[s].plan_b.tradeoff_percent = QInt(0)

\* no floor is declared in the state handed to run_module7
NoFloors ==
    m7_in.state.min_spend_per_platform = <<>> /\ m7_in.state.min_budget_per_goal = <<>>

\* the pairs of platforms other than Plan A's dominant one with a positive score
OtherScored(s) ==
    LET scores == ScorePg(GivenResults[s])
        top == Dominant(PlatformTotals(GivenResults[s]), PlatformOrder)
    IN  {pr \in PairsOf(scores) : pr[1] # top}

\* C17: when Plan A's dominant platform holds more than cap x budget used
\* (cap 0.70), no floors are declared and some pair of another platform has a
\* positive score, Plan B gives the dominant platform exactly cap x budget
\* used, each of its goal allocations scaled by the same factor, spreads the
\* whole freed amount over the other platforms' pairs in proportion to their
\* scores, keeps Plan A's total, and reports a trade-off of at least 0.
C17_CapAndRedistribute ==
    Returned =>
        \A s \in DOMAIN Insights :
            (PlanBProduced(s) /\ ~UnderCap(s) /\ NoFloors /\ OtherScored(s) # {}) =>
                LET a == Insights[s].plan_a.allocation
                    b == Insights[s].plan_b.allocation
                    lp == GivenResults[s]
                    top == Dominant(PlatformTotals(lp), PlatformOrder)
                    used == QInt(lp.total_budget_used)
                    capped == QMul(Q(70, 100), used)
                    scores == ScorePg(lp)
                    others == OtherScored(s)
                    total_score == QSum(others, [pr \in others |-> scores[pr[1]][pr[2]]])
                    Share(pr) == IF pr \in others
                                 THEN QDiv(QMul(QSub(used, capped), scores[pr[1]][pr[2]]),
                                           total_score)
                                 ELSE QInt(0)
                IN  /\ RowTotal(b[top]) = capped
                    /\ \A g \in DOMAIN a[top] :
                           b[top][g] = QDiv(QMul(a[top][g], capped), RowTotal(a[top]))
                    /\ \A p \in DOMAIN b \ {top} :
                           \A g \in DOMAIN b[p] : b[p][g] = Share(<<p, g>>)
                    /\ \A pr \in others : pr[1] \in DOMAIN b /\ pr[2] \in DOMAIN b[pr[1]]
                    /\ QSum(DOMAIN b, [p \in DOMAIN b |-> RowTotal(b[p])]) = used
                    /\ Insights[s].plan_b.tradeoff_percent # NoTradeoff
                    /\ QLe(QInt(0), Insights[s].plan_b.tradeoff_percent)

\* the whole budget of 4 was on one platform: Plan B leaves it 2.8 and spreads
\* 1.2 over two pairs of the other platform whose scores differ
C17_Witness ==
    /\ Returned
    /\ NoFloors
    /\ \E s \in DOMAIN Insights :
          /\ PlanBProduced(s)
          /\ TopShare(s) = QInt(1)
          /\ Cardinality(OtherScored(s)) = 2
          /\ RowTotal(Insights[s].plan_b.allocation["fb"]) = Q(14, 5)
          /\ Insights[s].plan_b.allocation["ig"]["aw"] # Insights[s].plan_b.allocation["ig"]["en"]
          /\ RowTotal(Insights[s].plan_b.allocation["ig"]) = Q(6, 5)

\* Plan A had 3 of 4 on the dominant platform and 1 on the other one: Plan B
\* pools that 1 with the 0.2 taken from the dominant platform
C17_PooledWitness ==
    /\ Returned
    /\ NoFloors
    /\ \E s \in DOMAIN Insights :
          /\ PlanBProduced(s)
          /\ TopShare(s) = Q(3, 4)
          /\ OtherScored(s) # {}
          /\ RowTotal(Insights[s].plan_b.allocation["fb"]) = Q(14, 5)
          /\ RowTotal(Insights[s].plan_b.allocation["ig"]) = Q(6, 5)

\* the risk-managed mode was requested in the call
RiskManagedRequested == m7_in.decision_mode \in {"Risk managed", " Risk Managed "}

\* the parts of the insight of scenario s other than Plan B are there
InsightComplete(s) ==
    /\ Insights[s].classification
           \in {"Corner-dominant", "Balanced", "Scenario-sensitive", "Unclear"}
    /\ Insights[s].confidence_score \in 40..100
    /\ "allocation" \in DOMAIN Insights[s].plan_a
    /\ Insights[s].risks \in Seq(STRING)
    /\ Insights[s].recommendations \in Seq(STRING)
    /\ Insights[s].executive_summary # ""

\* C19: run_module7 attempts Plan B for a scenario exactly when the scenario
\* is "Corner-dominant" or the risk-managed mode was requested; otherwise
\* plan_b is absent; and when the attempt returns nothing the call still
\* returns, with the rest of the scenario's insight produced.
C19_PlanBTrigger ==
    /\ Returned =>
          \A s \in DOMAIN Insights :
              /\ (s \in m7_out.plan_b_calls)
                     <=> (Insights[s].classification = "Corner-dominant" \/ RiskManagedRequested)
              /\ (s \notin m7_out.plan_b_calls) => ~PlanBProduced(s)
              /\ InsightComplete(s)
    /\ (m7_in.called /\ m7_in.state = FreshState) =>
          /\ Returned
          /\ DOMAIN Insights = DOMAIN GivenResults
          /\ \A s \in DOMAIN Insights : ~PlanBProduced(s)

\* Plan B was attempted with a state that holds no budget, goals or
\* platforms: it is absent and the insight is there
C19_Witness ==
    /\ Returned
    /\ m7_in.state = FreshState
    /\ \E s \in DOMAIN Insights :
          /\ s \in m7_out.plan_b_calls
          /\ ~RiskManagedRequested
          /\ ~PlanBProduced(s)
          /\ InsightComplete(s)
          /\ Insights[s].recommendations # <<>>

\* Plan B was attempted for an over-cap allocation without any positive score
C19_NoScoresWitness ==
    /\ Returned
    /\ m7_in.state # FreshState
    /\ \E s \in DOMAIN Insights :
          /\ s \in m7_out.plan_b_calls
          /\ GivenResults[s].total_budget_used > 0
          /\ ScorePg(GivenResults[s]) = <<>>
          /\ ~PlanBProduced(s)
          /\ InsightComplete(s)

\* a scenario that is not corner-dominant, in the default mode: no Plan B
C19_AbsentWitness ==
    /\ Returned
    /\ ~RiskManagedRequested
    /\ \E s \in DOMAIN Insights :
          /\ Insights[s].classification \in {"Balanced", "Unclear", "Scenario-sensitive"}
          /\ s \notin m7_out.plan_b_calls
          /\ Insights[s].plan_b = NoPlan

\* the realized totals of the scenario result handed to _constraints
RealizedPlatform(p) ==
    IF p \in DOMAIN m7_in.lp.budget_per_platform_goal
    THEN SumDict(m7_in.lp.budget_per_platform_goal[p]) ELSE 0
RealizedGoal(g) ==
    LET bpg == m7_in.lp.budget_per_platform_goal
        holders == {p \in DOMAIN bpg : g \in DOMAIN bpg[p]}
    IN  SumSet(holders, [p \in holders |-> bpg[p][g]])

\* a floor of requirement req with realized total actual is listed under
\* label as the claim says: binding iff within 0.1 % of the requirement,
\* non-binding iff above it beyond that, never both, and not at all if req <= 0
ListedAsClaimed(label, req, actual) ==
    LET binding == label \in Range(m7_out.b)
        nonBinding == label \in Range(m7_out.nb)
    IN  IF req > 0
        THEN /\ binding <=> (1000 * Abs(actual - req) <= req)
             /\ nonBinding <=> (1000 * (actual - req) > req)
             /\ ~(binding /\ nonBinding)
        ELSE ~binding /\ ~nonBinding

\* C20: every declared floor > 0 is listed as binding iff |realized total -
\* requirement| <= max(1e-6, 0.001 x requirement), as non-binding iff the
\* realized total exceeds the requirement beyond that tolerance, and never as
\* both; a floor of 0 is listed in neither list.
C20_BindingLists ==
    m7_out.status = "constraints" =>
        /\ \A p \in DOMAIN m7_in.state.min_spend_per_platform :
               ListedAsClaimed("Minimum spend on " \o PLATFORM_NAMES[p],
                               SafeFloat(m7_in.state.min_spend_per_platform[p], 0),
                               RealizedPlatform(p))
        /\ \A g \in DOMAIN m7_in.state.min_budget_per_goal :
               ListedAsClaimed("Minimum budget for " \o GOAL_NAMES[g],
                               SafeFloat(m7_in.state.min_budget_per_goal[g], 0),
                               RealizedGoal(g))

\* a floor of 1000 met with 1001 is binding, next to a floor of 1000 met with
\* 1002, which is not binding, and a floor of 0, which is not listed
C20_Witness ==
    /\ m7_out.status = "constraints"
    /\ m7_in.state.min_spend_per_platform = ("fb" :> Num(1000) @@ "ig" :> Num(0))
    /\ m7_in.state.min_budget_per_goal = ("aw" :> Num(1000) @@ "en" :> Num(1000))
    /\ RealizedPlatform("fb") = 1001
    /\ RealizedGoal("aw") = 1002
    /\ m7_out.b = << "Minimum spend on Facebook" >>
    /\ m7_out.nb = << "Minimum budget for Awareness" >>

\* C21: every scenario insight returned by run_module7 has a non-empty
\* executive summary and at least one recommendation, whatever its
\* classification, confidence and data-quality note are.
C21_SummaryAndRecommendation ==
    Returned =>
        \A s \in DOMAIN Insights :
            /\ Insights[s].executive_summary # ""
            /\ Len(Insights[s].recommendations) >= 1

\* an insight for which no rule of the table fires: neither corner-dominant
\* nor scenario-sensitive, no data-quality note, confidence above 55; its only
\* recommendation is the stability explanation
C21_Witness ==
    /\ Returned
    /\ \E s \in DOMAIN Insights :
          /\ Insights[s].classification \in {"Balanced", "Unclear"}
          /\ Insights[s].data_quality_note = ""
          /\ Insights[s].confidence_score > 55
          /\ Insights[s].risks = <<>>
          /\ Insights[s].recommendations = << StabilityText(m7_in.bundle) >>
          /\ Insights[s].executive_summary # ""

\* C25: every scenario result is internally consistent: each per-pair
\* allocation is >= 0, budget_per_platform[p] is the sum over the goals of
\* budget_per_platform_goal[p][g], total_budget_used is the sum of all the
\* per-pair allocations, and the estimated KPI of each pair is r_pg times its
\* allocation.
C25_ResultConsistent ==
    \A s \in DOMAIN results :
        LET r == results[s]
            bpg == r.budget_per_platform_goal
        IN  /\ DOMAIN r.budget_per_platform = DOMAIN bpg
            /\ DOMAIN r.estimated_kpi_per_platform_goal = DOMAIN bpg
            /\ \A p \in DOMAIN bpg :
                  /\ r.budget_per_platform[p] = SumDict(bpg[p])
                  /\ DOMAIN r.estimated_kpi_per_platform_goal[p] = DOMAIN bpg[p]
                  /\ \A g \in DOMAIN bpg[p] :
                        /\ bpg[p][g] >= 0
                        /\ r.estimated_kpi_per_platform_goal[p][g]
                               = Get(Get(r.r_pg, p, <<>>), g, 0) * bpg[p][g]
            /\ r.total_budget_used
                   = SumSet(PairsOf(bpg), [pr \in PairsOf(bpg) |-> bpg[pr[1]][pr[2]]])

\* a result over two platforms and two goals with a funded pair whose KPI
\* estimate is positive and an unfunded pair of positive productivity
C25_Witness ==
    \E s \in DOMAIN results :
        LET r == results[s]
            bpg == r.budget_per_platform_goal
        IN  /\ Cardinality(PairsOf(bpg)) = 4
            /\ \E pr \in PairsOf(bpg) :
                  /\ bpg[pr[1]][pr[2]] > 0
                  /\ r.estimated_kpi_per_platform_goal[pr[1]][pr[2]] > 0
            /\ \E pr \in PairsOf(bpg) :
                  /\ bpg[pr[1]][pr[2]] = 0
                  /\ r.r_pg[pr[1]][pr[2]] > 0
                  /\ r.estimated_kpi_per_platform_goal[pr[1]][pr[2]] = 0
            /\ r.total_budget_used > 0

\* the floor declared for platform p and for goal g in the state handed to
\* run_module7 (0: none declared)
FloorOfPlatform(p) == Max0(SafeFloat(Get(m7_in.state.min_spend_per_platform, p, Num(0)), 0))
FloorOfGoal(g) == Max0(SafeFloat(Get(m7_in.state.min_budget_per_goal, g, Num(0)), 0))

\* what an allocation gives platform p, and goal g over all the platforms
GivenToPlatform(alloc, p) == RowTotal(Get(alloc, p, <<>>))
GivenToGoal(alloc, g) ==
    QSum(DOMAIN alloc, [p \in DOMAIN alloc |-> QMax0(Get(alloc[p], g, QInt(0)))])

\* the allocation meets every floor declared for an active platform or a
\* valid goal of the state
FloorsMet(alloc) ==
    /\ \A p \in Range(m7_in.state.active_platforms) :
          QLe(QInt(FloorOfPlatform(p)), GivenToPlatform(alloc, p))
    /\ \A g \in Range(m7_in.state.valid_goals) :
          QLe(QInt(FloorOfGoal(g)), GivenToGoal(alloc, g))

\* C26: a returned Plan B whose final proportional rescale was not triggered
\* meets every declared platform minimum spend and goal minimum budget; a
\* declared floor is violated in a returned Plan B only in a run where the
\* rescale was applied.
C26_FloorsReapplied ==
    Returned =>
        \A s \in DOMAIN Insights :
            (PlanBProduced(s) /\ ~FloorsMet(Insights[s].plan_b.allocation))
                => s \in m7_out.plan_b_rescaled

\* a Plan B over the cap that was not scaled back and in which a floor was
\* topped up: without the declared floors the plan would be another one
C26_Witness ==
    /\ Returned
    /\ \E s \in DOMAIN Insights :
          /\ PlanBProduced(s)
          /\ ~UnderCap(s)
          /\ s \notin m7_out.plan_b_rescaled
          /\ \E p \in Range(m7_in.state.active_platforms) : FloorOfPlatform(p) > 0
          /\ FloorsMet(Insights[s].plan_b.allocation)
          /\ ~FloorsMet(PlanBRiskManaged(
                 [m7_in.state EXCEPT !.min_spend_per_platform = <<>>,
                                     !.min_budget_per_goal = <<>>],
                 GivenResults[s], cap_top_platform_share).allocation)

\* a Plan B that was scaled back and no longer meets a declared floor
C26_RescaledWitness ==
    /\ Returned
    /\ \E s \in DOMAIN Insights :
          /\ PlanBProduced(s)
          /\ s \in m7_out.plan_b_rescaled
          /\ ~FloorsMet(Insights[s].plan_b.allocation)

\* the total of an allocation over all its pairs
TotalOf(alloc) == QSum(DOMAIN alloc, [p \in DOMAIN alloc |-> RowTotal(alloc[p])])

\* C27: every Plan B returned has all its per-pair allocations >= 0 and a
\* total that does not exceed the scenario's total budget used, whatever
\* floors are declared and whichever branch produced it.
C27_PlanBWithinBudget ==
    Returned =>
        \A s \in DOMAIN Insights :
            PlanBProduced(s) =>
                LET alloc == Insights[s].plan_b.allocation
                IN  /\ \A pr \in PairsOf(alloc) : alloc[pr[1]][pr[2]].n >= 0
                    /\ QLe(TotalOf(alloc), QInt(GivenResults[s].total_budget_used))

\* a Plan B whose floors were topped up beyond the budget and that was scaled
\* back to exactly the budget used
C27_Witness ==
    /\ Returned
    /\ \E s \in DOMAIN Insights :
          /\ PlanBProduced(s)
          /\ s \in m7_out.plan_b_rescaled
          /\ TotalOf(Insights[s].plan_b.allocation)
                 = QInt(GivenResults[s].total_budget_used)

\* a Plan B of the branch under the cap
C27_UnderCapWitness ==
    /\ Returned
    /\ \E s \in DOMAIN Insights :
          /\ PlanBProduced(s)
          /\ UnderCap(s)
          /\ TotalOf(Insights[s].plan_b.allocation)
                 = QInt(GivenResults[s].total_budget_used)

\* a Plan B of the branch that caps the dominant platform and finds no pair to
\* redistribute to: part of the budget used is left out
C27_NoTargetsWitness ==
    /\ Returned
    /\ \E s \in DOMAIN Insights :
          /\ PlanBProduced(s)
          /\ ~UnderCap(s)
          /\ Insights[s].plan_b.tradeoff_percent = NoTradeoff
          /\ QLt(TotalOf(Insights[s].plan_b.allocation),
                 QInt(GivenResults[s].total_budget_used))

\* the multiplier the scenario was solved with, and the optimal allocations
\* of the linear program solved with the arguments a
MultiplierOf(name) ==
    LET sm == lp_input.scenario_multipliers
    IN  sm[CHOOSE k \in DOMAIN sm : sm[k].name = name].mult
OptimalFor(a) ==
    LET F == {x \in Candidates(a) : Feasible(a, x)}
    IN  IF F = {} THEN {} ELSE Optimal(F, [y \in F |-> ObjectiveOf(a, y)])
PointOf(a, r) ==
    [pr \in LpPairs(a) |-> r.budget_per_platform_goal[pr[1]][pr[2]]]

\* C28: for any two scenarios solved in one call with multipliers m1, m2 > 0
\* an allocation is optimal for one iff it is optimal for the other, and the
\* optimal objective values satisfy obj1 x m2 = obj2 x m1; two scenario results
\* with different allocations are both optimal for both scenarios (a tie).
C28_ScalingKeepsOptimum ==
    \A i, j \in DOMAIN solved :
        i < j =>
            \A opt_a \in {OptimalFor(solved[i].args)}, opt_b \in {OptimalFor(solved[j].args)} :
                LET a == solved[i].args
                    b == solved[j].args
                    s == solved[i].scenario
                    t == solved[j].scenario
                IN  /\ opt_a = opt_b
                    /\ \A x \in opt_a :
                          ObjectiveOf(a, x) * MultiplierOf(t) = ObjectiveOf(b, x) * MultiplierOf(s)
                    /\ (s \in DOMAIN results /\ t \in DOMAIN results) =>
                          /\ results[s].objective_value * MultiplierOf(t)
                                 = results[t].objective_value * MultiplierOf(s)
                          /\ PointOf(a, results[s]) \in opt_b
                          /\ PointOf(b, results[t]) \in opt_a
                          /\ results[s].budget_per_platform_goal # results[t].budget_per_platform_goal
                                 => Cardinality(opt_a) >= 2

\* two scenarios solved with different multipliers and positive optimal
\* values whose results differ: each of the two allocations is optimal for both
C28_Witness ==
    /\ pc \in {"done", "returned"}
    /\ \E s, t \in DOMAIN results :
          /\ MultiplierOf(s) # MultiplierOf(t)
          /\ results[s].objective_value > 0
          /\ results[s].budget_per_platform_goal # results[t].budget_per_platform_goal

\* two scenarios solved with different multipliers that have one optimal
\* allocation, found by both
C28_UniqueWitness ==
    /\ pc \in {"done", "returned"}
    /\ \E i, j \in DOMAIN solved :
          /\ MultiplierOf(solved[i].scenario) # MultiplierOf(solved[j].scenario)
          /\ Cardinality(OptimalFor(solved[i].args)) = 1
          /\ ObjectiveOf(solved[i].args, CHOOSE x \in OptimalFor(solved[i].args) : TRUE) > 0
          /\ {solved[i].scenario, solved[j].scenario} \subseteq DOMAIN results

\* the name of the method that completes module n
CompleteName(n) ==
    IF n = 6 THEN "complete_module6"
    ELSE << "complete_module1_and_advance", "complete_module2_and_advance",
            "complete_module3_and_advance", "complete_module4_and_advance",
            "complete_module5_and_advance" >>[n]

\* this step is a call of operation c from the idle wizard
Calls(c) == pc = "idle" /\ call' = c

\* this step completes module n: its complete method ends without an error,
\* called on its own or by run_module2, run_module4, run_module5 or run_module6
Completes(n) ==
    \/ Calls(CompleteName(n)) /\ raised' = NoError
    \/ n = 2 /\ Calls("run_module2") /\ raised' = NoError
    \/ n = 4 /\ Calls("run_module4") /\ raised' = NoError
    \/ n = 5 /\ pc = "complete" /\ pc' = "done"
    \/ n = 6 /\ Calls("run_module6") /\ raised' = NoError

\* C22: complete_moduleN_and_advance (N = 1..5) succeeds only at current_step = N
\* with module N-1 finalised, then sets moduleN_finalised and current_step = N+1,
\* and raises FlowStateError at any other step; so a module is completed only
\* after the modules before it and before the modules after it, and
\* current_step never decreases except through reset().
C22_CompletedInOrder ==
    [][ /\ \A n \in 1..5 :
              /\ Completes(n) =>
                    /\ current_step = n
                    /\ n >= 2 => finalised[n - 1]
                    /\ finalised'[n]
                    /\ current_step' = n + 1
              /\ (Calls(CompleteName(n)) /\ current_step # n) =>
                    raised'.cls = "FlowStateError"
        /\ \A n \in 1..6 :
              Completes(n) => /\ \A k \in 1..(n - 1) : finalised[k]
                              /\ \A k \in (n + 1)..6 : ~finalised[k]
        /\ current_step' < current_step => Calls("reset")
      ]_vars

\* the run_moduleN orchestrator of module n
RunName(n) == << "run_module1", "run_module2", "run_module3", "run_module4",
                 "run_module5", "run_module6" >>[n]

\* C23: once a module is finalised its stored outputs (Module 1: valid_goals,
\* total_budget; Module 2: active_platforms, goals_by_platform, priority_rank,
\* platform_weights, platform_priorities; the Module 5 and Module 6 results) are
\* not changed by any operation other than reset(), and a repeated run_moduleN
\* call is rejected and leaves the state unchanged.
C23_LockedOutputs ==
    [][ ~Calls("reset") =>
           /\ finalised[1] => UNCHANGED << valid_goals, total_budget >>
           /\ finalised[2] => UNCHANGED module2_out
           /\ finalised[5] => UNCHANGED module5_out
           /\ finalised[6] => UNCHANGED module6_out
           /\ \A n \in {2, 4, 5, 6} :
                 (Calls(RunName(n)) /\ finalised[n]) =>
                     /\ raised' # NoError
                     /\ UNCHANGED << wizard, stages >>
      ]_vars

\* the fields and attributes of a WizardState as WizardState() builds it
FreshFields ==
    /\ current_step = 1
    /\ finalised = [n \in 1..6 |-> FALSE]
    /\ valid_goals = <<>> /\ total_budget = 0 /\ system_goal_weights = <<>>
    /\ platform_priorities = <<>> /\ priority_rank = <<>> /\ platform_weights = <<>>
    /\ active_platforms = <<>> /\ goals_by_platform = <<>>
    /\ module3_data = <<>> /\ kpi_ratios = <<>>
    /\ platform_budgets = <<>> /\ platform_kpis = <<>>
    /\ module4_result = NoResult /\ module5_result = NoResult /\ module6_result = NoResult
FreshAttributes ==
    /\ module5_scenario_bundle = NoBundle
    /\ module6_scenario_result = NoResult

\* C24: after reset() the WizardState is as a freshly constructed one:
\* current_step = 1, every finalised flag false, every module output cleared,
\* the scenario bundle and the scenario forecast included.
C24_ResetIsFresh ==
    (pc = "done" /\ call = "reset") => (FreshFields /\ FreshAttributes)

\* C29: in every state reached by complete_module*, run_module2, run_module4,
\* run_module5, run_module6 and reset calls, moduleK_finalised implies
\* module(K-1)_finalised (K = 2..6) and current_step >= K+1 (K = 1..5),
\* module5_finalised implies module5_result is set, and current_step is in 1..6.
C29_FlowInvariants ==
    /\ \A k \in 2..6 : finalised[k] => finalised[k - 1]
    /\ \A k \in 1..5 : finalised[k] => current_step >= k + 1
    /\ finalised[5] => module5_result # NoResult
    /\ current_step \in 1..6

\* run_module6 has just returned without an error
Forecasted == pc = "done" /\ call = "run_module6" /\ raised = NoError

\* the productivity ratio Module 5 derives for (p, g) from the stored kpi_ratios
StoredProductivity(p, g) ==
    Get(Get(BuildRpg(kpi_ratios, active_platforms, valid_goals), p, <<>>), g, 0)

\* C30: with the kpi_ratios complete_module3_and_advance stored, every
\* (platform, goal) pair that has a positive Module 5 productivity ratio and an
\* allocation at or above the activity threshold has at least one row in the
\* Module 6 forecast built from the same ratios.
C30_ForecastCoversAllocation ==
    Forecasted =>
        LET bpg == module5_result.budget_per_platform_goal
        IN  \A p \in DOMAIN bpg :
                \A g \in DOMAIN bpg[p] :
                    (StoredProductivity(p, g) > 0 /\ bpg[p][g] >= MinBudgetThreshold) =>
                        \E i \in DOMAIN module6_result.rows :
                            /\ module6_result.rows[i].platform = p
                            /\ module6_result.rows[i].objective = g

====
